---- MODULE Spec2Model ----
(***************************************************************************)
(* Model of the RemoteExecution dynamic resource of remote_executor.py:    *)
(* the create / diff / delete contract of RemoteExecutionProvider over one *)
(* declared unit, the directory fingerprint (hash_directory), the line     *)
(* templating (apply_substitutions), and one call of execute_remotely: the *)
(* assembled script, the connection loop and the remote execution.         *)
(***************************************************************************)
EXTENDS Integers, Sequences, FiniteSets, TLC

VARIABLES
    fs,          \* local file system: script directory |-> files in os.walk order
    desired,     \* the declared inputs of the unit (news), or Removed
    record,      \* the stored outputs of the unit (olds): Absent, NoResult or a record
    oldRecord,   \* a superseded record still awaiting its delete
    diffResult,  \* the DiffResult of the latest diff, NoDiff when none is pending
    executed,    \* the entrypoint the latest transition ran remotely, "none" if none
    created,     \* history: the inputs and file system of the latest successful create
    edits,       \* number of edits made to the local script directories
    changes,     \* number of changes made to the declared inputs
    line,        \* templating: the source line handed to apply_substitutions
    subs,        \* templating: the substitution map of the file (key |-> value)
    outLines,    \* templating: the lines apply_substitutions returned, NotRun before
    run,         \* one call of create or delete in progress: its position,
                 \* the assembled script and what happened remotely; Idle if none
    folder,      \* one call of write_echo_commands_for_folder: the walked tree
                 \* and the commands written
    chan,        \* one call of exec_simple: the remote process, the channel's
                 \* two streams and what the reader has collected
    pair         \* two executions on one first hop and host at the same time

lifecycleVars == <<fs, desired, record, oldRecord, diffResult, executed, created, edits, changes>>
templateVars == <<line, subs, outLines>>
runVars == <<run>>
auxVars == <<folder, chan, pair>>
vars == <<fs, desired, record, oldRecord, diffResult, executed, created, edits, changes,
          line, subs, outLines, run, folder, chan, pair>>

----------------------------------------------------------------------------
(* Bounds *)

MaxFiles == 2   \* files per script directory
MaxLen == 1     \* bytes per file
MaxEdits == 1   \* edits of the local script directories in one behaviour
MaxChanges == 1 \* changes of the declared inputs in one behaviour
MaxSegs == 3    \* segments (a character or a {{NAME}} token) per line
MaxDepth == 2   \* depth of the sub-directories of a walked folder
MaxWrites == 4  \* bytes the remote process writes in one execution
BufSize == 2    \* bytes a stream of the channel holds before its writer blocks

----------------------------------------------------------------------------
(* Values *)

None == "None"
Absent == [kind |-> "absent"]      \* no stored record / no history
NoResult == [kind |-> "none"]      \* execute_remotely returned no value
Removed == [kind |-> "removed"]    \* the unit is no longer declared
NoDiff == [kind |-> "nodiff"]      \* no diff result is pending
Idle == [pc |-> "idle"]            \* no provider call is in progress

Bytes == {0, 1}
FileNames == {"main.sh", "delete.sh"}
ScriptDirs == {"scripts/a", "scripts/b"}
SharedDirs == {"scripts/shared", "scripts/common"}
Dirs == ScriptDirs \cup SharedDirs
Hosts == {"10.0.0.5", "10.0.0.6"}
Bastions == {None, "52.0.0.1"}
PrivateKeys == {"key.pem", "other.pem"}
SubstitutionMaps ==
    { {}, {<<"main.sh", "X", "v">>}, {<<"shared/main.sh", "X", "v">>} }

Inputs ==
    [script_name : ScriptDirs, file_substitutions : SubstitutionMaps,
     host : Hosts, private_key : PrivateKeys, bastion : Bastions,
     shared_script_name : SharedDirs \cup {None}]

IsRecord(r) == r \notin {Absent, NoResult}

----------------------------------------------------------------------------
(* hash_directory *)

\* Mutant: only the first file reaches the accumulator.
FeedFiles_FirstOnly(files, i) ==
    IF files = <<>> THEN <<>> ELSE files[1].content

\* Mutant: every file's bytes are followed by an end-of-file mark.
RECURSIVE FeedFiles_Delimited(_, _)
FeedFiles_Delimited(files, i) ==
    IF i > Len(files) THEN <<>>
    ELSE files[i].content \o <<2>> \o FeedFiles_Delimited(files, i + 1)

RECURSIVE FeedFiles(_, _)
FeedFiles(files, i) ==
    IF i > Len(files) THEN <<>>
    ELSE files[i].content \o FeedFiles(files, i + 1)

\* One sha256 accumulator fed every file's bytes in os.walk order; the digest
\* is modelled as injective, so it is the byte stream that was fed.
hash_directory(fsys, dirpath) == FeedFiles(fsys[dirpath], 1)

\* dirhash of execute_remotely: the primary digest, then "+" and the shared
\* digest when a shared directory is given.  Hex digests have a fixed width
\* and hold no "+", so the joined string is the sequence of its digests.
\* Mutant: both directories are hashed into one accumulator.
CreateHash_OneAccumulator(fsys, script_name, shared_script_name) ==
    IF shared_script_name # None
    THEN <<hash_directory(fsys, script_name)
               \o hash_directory(fsys, shared_script_name)>>
    ELSE <<hash_directory(fsys, script_name)>>

CreateHash(fsys, script_name, shared_script_name) ==
    IF shared_script_name # None
    THEN <<hash_directory(fsys, script_name)>>
             \o <<hash_directory(fsys, shared_script_name)>>
    ELSE <<hash_directory(fsys, script_name)>>

\* Mutant: diff forgets the shared directory.
DiffHash_PrimaryOnly(fsys, news) ==
    <<hash_directory(fsys, news.script_name)>>

\* script_hash of diff, recomputed from the new inputs.
DiffHash(fsys, news) ==
    IF news.shared_script_name # None
    THEN <<hash_directory(fsys, news.script_name)>>
             \o <<hash_directory(fsys, news.shared_script_name)>>
    ELSE <<hash_directory(fsys, news.script_name)>>

----------------------------------------------------------------------------
(* RemoteExecutionProvider *)

\* Mutant: the fingerprint is taken over the templated files, so it carries
\* a component that depends on the substitution map.
execute_remotely_HashOfDelivered(fsys, script_name, file_substitutions, host, private_key, bastion, shared_script_name, connected) ==
    IF connected
    THEN [stdout |-> "stdout", stderr |-> "stderr",
          script_name |-> script_name,
          file_substitutions |-> file_substitutions,
          script_hash |->
              <<hash_directory(fsys, script_name)
                    \o <<Cardinality(file_substitutions)>> >>,
          private_key |-> private_key, host |-> host, bastion |-> bastion]
    ELSE NoResult

\* execute_remotely: the fingerprint is taken first; the assembled script
\* runs on the first connection that succeeds, and the outputs are returned;
\* when no attempt of the retry loop connects the function falls off its end.
execute_remotely(fsys, script_name, file_substitutions, host, private_key, bastion, shared_script_name, connected) ==
    IF connected
    THEN [stdout |-> "stdout", stderr |-> "stderr",
          script_name |-> script_name,
          file_substitutions |-> file_substitutions,
          script_hash |-> CreateHash(fsys, script_name, shared_script_name),
          private_key |-> private_key, host |-> host, bastion |-> bastion]
    ELSE NoResult

\* Mutant: the jump-host is not compared.
ReplacesOf_NoBastion(olds, news, script_hash) ==
    (IF olds.script_name # news.script_name THEN <<"script_name">> ELSE <<>>)
    \o (IF olds.file_substitutions # news.file_substitutions
        THEN <<"file_substitutions">> ELSE <<>>)
    \o (IF olds.script_hash # script_hash THEN <<"script_hash">> ELSE <<>>)
    \o (IF olds.host # news.host THEN <<"host">> ELSE <<>>)

\* Mutant: a changed fingerprint is reported under the bundle path's name.
ReplacesOf_HashAsPath(olds, news, script_hash) ==
    (IF olds.script_name # news.script_name THEN <<"script_name">> ELSE <<>>)
    \o (IF olds.file_substitutions # news.file_substitutions
        THEN <<"file_substitutions">> ELSE <<>>)
    \o (IF olds.script_hash # script_hash THEN <<"script_name">> ELSE <<>>)
    \o (IF olds.host # news.host THEN <<"host">> ELSE <<>>)
    \o (IF olds.bastion # news.bastion THEN <<"bastion">> ELSE <<>>)

\* Mutant: the key reference is compared as well.
ReplacesOf_WithKey(olds, news, script_hash) ==
    (IF olds.script_name # news.script_name THEN <<"script_name">> ELSE <<>>)
    \o (IF olds.file_substitutions # news.file_substitutions
        THEN <<"file_substitutions">> ELSE <<>>)
    \o (IF olds.script_hash # script_hash THEN <<"script_hash">> ELSE <<>>)
    \o (IF olds.host # news.host THEN <<"host">> ELSE <<>>)
    \o (IF olds.bastion # news.bastion THEN <<"bastion">> ELSE <<>>)
    \o (IF olds.private_key # news.private_key THEN <<"private_key">> ELSE <<>>)

\* The list diff builds, one comparison after the other.
ReplacesOf(olds, news, script_hash) ==
    (IF olds.script_name # news.script_name THEN <<"script_name">> ELSE <<>>)
    \o (IF olds.file_substitutions # news.file_substitutions
        THEN <<"file_substitutions">> ELSE <<>>)
    \o (IF olds.script_hash # script_hash THEN <<"script_hash">> ELSE <<>>)
    \o (IF olds.host # news.host THEN <<"host">> ELSE <<>>)
    \o (IF olds.bastion # news.bastion THEN <<"bastion">> ELSE <<>>)

\* Mutant: the flag is set when the host changed.
DeleteBeforeReplace_HostChanged(olds, news) == olds.host # news.host

\* The delete_before_replace argument of the DiffResult.
DeleteBeforeReplace(olds, news) == olds.host = news.host

\* Mutant: a change of the jump-host alone is reported as a change that
\* replaces nothing.
diff_UpdateOnBastion(fsys, olds, news) ==
    LET script_hash == DiffHash(fsys, news)
        replaces == ReplacesOf_NoBastion(olds, news, script_hash)
    IN  IF replaces = <<>> /\ olds.bastion = news.bastion
        THEN [changes |-> FALSE, replaces |-> <<>>, delete_before_replace |-> FALSE]
        ELSE [changes |-> TRUE, replaces |-> replaces,
              delete_before_replace |-> DeleteBeforeReplace(olds, news)]

diff(fsys, olds, news) ==
    LET script_hash == DiffHash(fsys, news)
        replaces == ReplacesOf(olds, news, script_hash)
    IN  IF replaces = <<>>
        THEN [changes |-> FALSE, replaces |-> <<>>, delete_before_replace |-> FALSE]
        ELSE [changes |-> TRUE, replaces |-> replaces,
              delete_before_replace |-> DeleteBeforeReplace(olds, news)]

\* Mutant: any file of the directory counts as a teardown file.
HasDeleteScript_AnyFile(fsys, olds) == fsys[olds.script_name] # <<>>

\* os.path.exists(os.path.join(olds["script_name"], "delete.sh"))
HasDeleteScript(fsys, olds) ==
    \E i \in DOMAIN fsys[olds.script_name] : fsys[olds.script_name][i].name = "delete.sh"

----------------------------------------------------------------------------
(* apply_substitutions and the delivery of a line *)

\* A text is a sequence of characters.
NL == "\n"
Whitespace == {" ", "\t", NL}

NotRun == [status |-> "NotRun", lines |-> <<>>]
AssertionError == [status |-> "AssertionError", lines |-> <<>>]

Min(S) == CHOOSE x \in S : \A y \in S : x <= y

\* The length of the run of whitespace a line starts with: what \s* takes
\* before "{{", which is no whitespace.
IndentLen(text) ==
    Min({n \in 0..Len(text) : n = Len(text) \/ text[n + 1] \notin Whitespace})

\* The positions p at which the key of \{\{(?P<key>.+?)\}\}, matched from
\* position s, may end: text[s], text[s+1] are "{{", the key text[s+2..p] has
\* at least one character and no newline, and "}}" follows it.
KeyEnds(text, s) ==
    IF s + 1 <= Len(text) /\ text[s] = "{" /\ text[s + 1] = "{"
    THEN {p \in (s + 2)..(Len(text) - 2) :
             /\ text[p + 1] = "}"
             /\ text[p + 2] = "}"
             /\ \A k \in (s + 2)..p : text[k] # NL}
    ELSE {}

\* The lazy key takes the first possible end.
KeyAt(text, s) == SubSeq(text, s + 2, Min(KeyEnds(text, s)))

\* value.split("\n")
RECURSIVE Split(_)
Split(value) ==
    LET nls == {i \in DOMAIN value : value[i] = NL}
    IN  IF nls = {} THEN <<value>>
        ELSE <<SubSeq(value, 1, Min(nls) - 1)>>
                 \o Split(SubSeq(value, Min(nls) + 1, Len(value)))

\* Mutant: only the first token of the line is replaced.
SimpleSub_FirstOnly(text, s, file_substitutions) ==
    LET starts == {p \in s..Len(text) : KeyEnds(text, p) # {}}
    IN  IF starts = {} THEN SubSeq(text, s, Len(text))
        ELSE LET p == Min(starts)
                 key == KeyAt(text, p)
             IN  SubSeq(text, s, p - 1)
                 \o (IF key \in DOMAIN file_substitutions
                     THEN file_substitutions[key] ELSE <<>>)
                 \o SubSeq(text, Min(KeyEnds(text, p)) + 3, Len(text))

\* SIMPLE_SUBSTITUTION_REGEX.sub from position s on: each match, found left
\* to right, is replaced by file_substitutions.get(key, "").
RECURSIVE SimpleSub(_, _, _)
SimpleSub(text, s, file_substitutions) ==
    IF s > Len(text) THEN <<>>
    ELSE IF KeyEnds(text, s) # {}
    THEN LET key == KeyAt(text, s)
         IN  (IF key \in DOMAIN file_substitutions
              THEN file_substitutions[key] ELSE <<>>)
             \o SimpleSub(text, Min(KeyEnds(text, s)) + 3, file_substitutions)
    ELSE <<text[s]>> \o SimpleSub(text, s + 1, file_substitutions)

\* Mutant: the value is inserted after the indentation as it is, so only
\* its first line is indented.
apply_substitutions_IndentOnce(text, file_substitutions) ==
    IF DOMAIN file_substitutions = {} THEN [status |-> "ok", lines |-> <<text>>]
    ELSE IF KeyEnds(text, IndentLen(text) + 1) # {}
    THEN LET indent == SubSeq(text, 1, IndentLen(text))
             key == KeyAt(text, IndentLen(text) + 1)
         IN  IF key \notin DOMAIN file_substitutions THEN AssertionError
             ELSE [status |-> "ok",
                   lines |-> Split(indent \o file_substitutions[key])]
    ELSE [status |-> "ok", lines |-> <<SimpleSub(text, 1, file_substitutions)>>]

\* Mutant: the whole-line path looks the key up with a default, as the
\* inline path does.
apply_substitutions_GetDefault(text, file_substitutions) ==
    IF DOMAIN file_substitutions = {} THEN [status |-> "ok", lines |-> <<text>>]
    ELSE IF KeyEnds(text, IndentLen(text) + 1) # {}
    THEN LET indent == SubSeq(text, 1, IndentLen(text))
             key == KeyAt(text, IndentLen(text) + 1)
             sublines == Split(IF key \in DOMAIN file_substitutions
                               THEN file_substitutions[key] ELSE <<>>)
         IN  [status |-> "ok",
              lines |-> [j \in DOMAIN sublines |-> indent \o sublines[j]]]
    ELSE [status |-> "ok", lines |-> <<SimpleSub(text, 1, file_substitutions)>>]

\* apply_substitutions(line, file_substitutions): the list of lines, or the
\* failed assertion.
apply_substitutions(text, file_substitutions) ==
    IF DOMAIN file_substitutions = {} THEN [status |-> "ok", lines |-> <<text>>]
    ELSE IF KeyEnds(text, IndentLen(text) + 1) # {}
    THEN LET indent == SubSeq(text, 1, IndentLen(text))
             key == KeyAt(text, IndentLen(text) + 1)
             sublines == Split(file_substitutions[key])
         IN  IF key \notin DOMAIN file_substitutions THEN AssertionError
             ELSE [status |-> "ok",
                   lines |-> [j \in DOMAIN sublines |-> indent \o sublines[j]]]
    ELSE [status |-> "ok", lines |-> <<SimpleSub(text, 1, file_substitutions)>>]

\* line.rstrip()
RStrip(text) ==
    SubSeq(text, 1,
           Len(text) - Min({n \in 0..Len(text) :
                               n = Len(text) \/ text[Len(text) - n] \notin Whitespace}))

\* .replace("\\", "\\\\").replace("'", "\\'")
RECURSIVE Escape(_)
Escape(text) ==
    IF text = <<>> THEN <<>>
    ELSE (IF Head(text) = "\\" THEN <<"\\", "\\">>
          ELSE IF Head(text) = "'" THEN <<"\\", "'">>
          ELSE <<Head(text)>>) \o Escape(Tail(text))

\* What the shell makes of the inside of $'...': a backslash quotes the
\* character after it.
RECURSIVE Unquote(_)
Unquote(text) ==
    IF text = <<>> THEN <<>>
    ELSE IF Head(text) = "\\" /\ Len(text) > 1
    THEN <<text[2]>> \o Unquote(Tail(Tail(text)))
    ELSE <<Head(text)>> \o Unquote(Tail(text))

\* The text the emitted commands echo $'<cleaned_line>' >> file append to
\* the remote file, one command per line.
RECURSIVE Delivered(_)
Delivered(lines) ==
    IF lines = <<>> THEN <<>>
    ELSE Unquote(Escape(RStrip(Head(lines)))) \o <<NL>> \o Delivered(Tail(lines))

\* Texts of the model
TokenX == <<"{", "{", "X", "}", "}">>
TokenLowerX == <<"{", "{", "x", "}", "}">>
Segments == {<<" ">>, TokenX, TokenLowerX, <<"a">>, <<"}">>, <<"'">>}
Values == {<<>>, <<"v">>, <<"a", NL, "b">>, <<"a", " ", NL, NL, "\\">>}
\* Two names that differ in case only.
Keys == {<<"X">>, <<"x">>}

\* The substitution maps of one file, the empty map among them.
FileSubstitutions ==
    UNION {[D -> Values] : D \in SUBSET Keys}

----------------------------------------------------------------------------
(* Lifecycle of one unit *)

InitFs ==
    [d \in Dirs |->
        IF d = "scripts/a"
        THEN <<[name |-> "main.sh", content |-> <<0>>],
               [name |-> "delete.sh", content |-> <<>>]>>
        ELSE IF d = "scripts/b"
        THEN <<[name |-> "main.sh", content |-> <<>>],
               [name |-> "delete.sh", content |-> <<0>>]>>
        ELSE <<[name |-> "main.sh", content |-> <<1>>]>>]

InitInputs ==
    [script_name |-> "scripts/a", file_substitutions |-> {}, host |-> "10.0.0.5",
     private_key |-> "key.pem", bastion |-> None, shared_script_name |-> None]

InitLifecycle ==
    /\ fs = InitFs
    /\ desired = InitInputs
    /\ record = Absent
    /\ oldRecord = Absent
    /\ diffResult = NoDiff
    /\ executed = "none"
    /\ created = Absent
    /\ edits = 0
    /\ changes = 0

\* The declarations a unit may start with: without and with a shared
\* directory.
InitDeclarations ==
    {InitInputs, [InitInputs EXCEPT !.shared_script_name = "scripts/shared"]}

\* The unit before its first create.
InitUnit ==
    /\ fs = InitFs
    /\ desired \in InitDeclarations
    /\ record = Absent
    /\ oldRecord = Absent
    /\ diffResult = NoDiff
    /\ executed = "none"
    /\ created = Absent
    /\ edits = 0
    /\ changes = 0

ReplacePending == diffResult # NoDiff /\ diffResult.changes

\* create: runs main.sh with the declared inputs and stores what
\* execute_remotely returned.  It is called for a unit with no record, and
\* for a replacement that creates before it deletes.
Create ==
    /\ desired # Removed
    /\ oldRecord = Absent
    /\ \/ record = Absent
       \/ ReplacePending /\ ~diffResult.delete_before_replace
    /\ \E connected \in BOOLEAN :
          LET outs == execute_remotely(fs, desired.script_name,
                          desired.file_substitutions, desired.host,
                          desired.private_key, desired.bastion,
                          desired.shared_script_name, connected)
          IN  /\ record' = outs
              /\ executed' = IF connected THEN "main.sh" ELSE "none"
              /\ created' = IF connected THEN [inputs |-> desired, fs |-> fs]
                            ELSE created
    /\ oldRecord' = record
    /\ diffResult' = NoDiff
    /\ UNCHANGED <<fs, desired, edits, changes>>

\* diff: compares the stored record with the declared inputs.
Diff ==
    /\ desired # Removed
    /\ IsRecord(record)
    /\ oldRecord = Absent
    /\ diffResult' = diff(fs, record, desired)
    /\ executed' = "none"
    /\ UNCHANGED <<fs, desired, record, oldRecord, created, edits, changes>>

\* What delete runs remotely for the record olds.
DeleteRuns(olds, connected) ==
    IF HasDeleteScript(fs, olds) /\ connected THEN "delete.sh" ELSE "none"

\* delete of the stored record: the declaration was removed, or a
\* replacement deletes before it creates.
Delete ==
    /\ IsRecord(record)
    /\ oldRecord = Absent
    /\ \/ desired = Removed
       \/ ReplacePending /\ diffResult.delete_before_replace
    /\ \E connected \in BOOLEAN : executed' = DeleteRuns(record, connected)
    /\ record' = Absent
    /\ diffResult' = NoDiff
    /\ UNCHANGED <<fs, desired, oldRecord, created, edits, changes>>

\* delete of the record a create-before-delete replacement superseded.
DeleteOld ==
    /\ IsRecord(oldRecord)
    /\ \E connected \in BOOLEAN : executed' = DeleteRuns(oldRecord, connected)
    /\ oldRecord' = Absent
    /\ UNCHANGED <<fs, desired, record, diffResult, created, edits, changes>>

\* Between two passes: no replacement is half done, and the latest create
\* did not end without a result.
AtRest == oldRecord = Absent /\ record # NoResult

\* The declaration of the unit is changed between two passes.
ChangeInputs ==
    /\ changes < MaxChanges
    /\ desired # Removed
    /\ AtRest
    /\ \E news \in Inputs : news # desired /\ desired' = news
    /\ changes' = changes + 1
    /\ diffResult' = NoDiff
    /\ executed' = "none"
    /\ UNCHANGED <<fs, record, oldRecord, created, edits>>

\* The declaration of the unit is removed.
RemoveDeclaration ==
    /\ desired # Removed
    /\ AtRest
    /\ desired' = Removed
    /\ diffResult' = NoDiff
    /\ executed' = "none"
    /\ UNCHANGED <<fs, record, oldRecord, created, edits, changes>>

\* The local script directories are edited between two passes: one step of
\* an edit replaces the files of directory d by files.
EditTo(d, files) ==
    /\ edits < MaxEdits
    /\ AtRest
    /\ files # fs[d]
    /\ fs' = [fs EXCEPT ![d] = files]
    /\ edits' = edits + 1
    /\ diffResult' = NoDiff
    /\ executed' = "none"
    /\ UNCHANGED <<desired, record, oldRecord, created, changes>>

\* One byte of one file is changed in place.
WriteByte ==
    \E d \in Dirs : \E i \in DOMAIN fs[d] : \E k \in DOMAIN fs[d][i].content :
        \E b \in Bytes :
            EditTo(d, [fs[d] EXCEPT ![i].content[k] = b])

\* A byte is appended to a file.
AppendByte ==
    \E d \in Dirs : \E i \in DOMAIN fs[d] : \E b \in Bytes :
        /\ Len(fs[d][i].content) < MaxLen
        /\ EditTo(d, [fs[d] EXCEPT ![i].content = Append(@, b)])

\* The last byte of a file is moved to the start of the next file in
\* traversal order.
MoveByte ==
    \E d \in Dirs : \E i \in DOMAIN fs[d] :
        /\ i + 1 \in DOMAIN fs[d]
        /\ fs[d][i].content # <<>>
        /\ Len(fs[d][i + 1].content) < MaxLen
        /\ LET c == fs[d][i].content
           IN  EditTo(d, [fs[d] EXCEPT
                   ![i].content = SubSeq(c, 1, Len(c) - 1),
                   ![i + 1].content = <<c[Len(c)]>> \o @])

\* A file is given another name and keeps its place in traversal order.
RenameFile ==
    \E d \in Dirs : \E i \in DOMAIN fs[d] : \E name \in FileNames :
        /\ \A j \in DOMAIN fs[d] : fs[d][j].name # name
        /\ EditTo(d, [fs[d] EXCEPT ![i].name = name])

\* An empty file is added to a directory.
AddFile ==
    \E d \in Dirs : \E name \in FileNames :
        /\ Len(fs[d]) < MaxFiles
        /\ \A i \in DOMAIN fs[d] : fs[d][i].name # name
        /\ EditTo(d, Append(fs[d], [name |-> name, content |-> <<>>]))

\* A file is removed from a directory.
RemoveFile ==
    \E d \in Dirs : \E i \in DOMAIN fs[d] :
        EditTo(d, SubSeq(fs[d], 1, i - 1) \o SubSeq(fs[d], i + 1, Len(fs[d])))

IdleTemplate == line = <<>> /\ subs = <<>> /\ outLines = NotRun

IdleRun == run = Idle

IdleAux == folder = Idle /\ chan = Idle /\ pair = Idle

Init == InitUnit /\ IdleTemplate /\ IdleRun /\ IdleAux

Next ==
    \/ Create /\ UNCHANGED <<templateVars, runVars, auxVars>>
    \/ Diff /\ UNCHANGED <<templateVars, runVars, auxVars>>
    \/ Delete /\ UNCHANGED <<templateVars, runVars, auxVars>>
    \/ DeleteOld /\ UNCHANGED <<templateVars, runVars, auxVars>>
    \/ ChangeInputs /\ UNCHANGED <<templateVars, runVars, auxVars>>
    \/ RemoveDeclaration /\ UNCHANGED <<templateVars, runVars, auxVars>>
    \/ WriteByte /\ UNCHANGED <<templateVars, runVars, auxVars>>
    \/ AppendByte /\ UNCHANGED <<templateVars, runVars, auxVars>>
    \/ MoveByte /\ UNCHANGED <<templateVars, runVars, auxVars>>
    \/ RenameFile /\ UNCHANGED <<templateVars, runVars, auxVars>>
    \/ AddFile /\ UNCHANGED <<templateVars, runVars, auxVars>>
    \/ RemoveFile /\ UNCHANGED <<templateVars, runVars, auxVars>>

Spec == Init /\ [][Next]_vars

----------------------------------------------------------------------------
(* Templating of one line of a delivered file *)

\* The lines of a file as the loop over the open file yields them: not
\* empty, with at most one newline, which ends the line.
Bodies == UNION {[1..n -> Segments] : n \in 0..MaxSegs}

RECURSIVE Flatten(_)
Flatten(segs) ==
    IF segs = <<>> THEN <<>> ELSE Head(segs) \o Flatten(Tail(segs))

FileLines ==
    {l \in {Flatten(b) \o e : b \in Bodies, e \in {<<>>, <<NL>>}} : l # <<>>}

InitTemplate ==
    /\ line \in FileLines
    /\ subs \in FileSubstitutions
    /\ outLines = NotRun

\* One turn of the loop of write_echo_commands_for_file: the line is handed
\* to apply_substitutions.
ApplySubstitutions ==
    /\ outLines = NotRun
    /\ outLines' = apply_substitutions(line, subs)
    /\ UNCHANGED <<line, subs>>

NextTemplate == ApplySubstitutions /\ UNCHANGED <<lifecycleVars, runVars, auxVars>>

TemplateInit == InitLifecycle /\ InitTemplate /\ IdleRun /\ IdleAux

SpecTemplate == TemplateInit /\ [][NextTemplate]_vars

----------------------------------------------------------------------------
(* The script execute_remotely assembles *)

RetryBound == 150   \* for _ in range(150)

RemoteDir == "remote_dir"   \* secrets.token_hex(8)
KeyFile == "key_file"       \* secrets.token_hex(8), the copy of the private key
FirstHop == "first hop"     \* the machine the client connects to, where the script runs
Target == "target"          \* the host, reached from the jump-host by the inner ssh
PrivateKeyContent == <<0, 1>>

\* dict.get(field)
Get(r, field) == IF field \in DOMAIN r THEN r[field] ELSE None

\* One command of the script: what it does, the path it names, the machine
\* it runs at.
Command(cmd, path, at) ==
    [cmd |-> cmd, path |-> path, text |-> <<>>, subs |-> {}, to |-> None, at |-> at]

\* A command of the first hop that opens a session to the host with the key copy.
Session(cmd, path, host) ==
    [cmd |-> cmd, path |-> path, text |-> <<>>, subs |-> {}, to |-> host, at |-> FirstHop]

\* file_substitutions.get(<path of the file relative to its folder>)
FileSubs(file_substitutions, name) ==
    {<<t[2], t[3]>> : t \in {u \in file_substitutions : u[1] = name}}

\* write_echo_commands_for_file: one echo per line, the chmod +x when
\* mark_executable, the two diagnostics.  A file of the model has no newline,
\* whitespace or token among its bytes: it is one line when not empty, and
\* the line is delivered as it is, under the map of the file.
write_echo_commands_for_file(content, echo_file_path, mark_executable, file_substitutions) ==
    (IF content = <<>> THEN <<>>
     ELSE <<[cmd |-> "echo >>", path |-> echo_file_path, text |-> content,
             subs |-> file_substitutions, to |-> None, at |-> FirstHop]>>)
    \o (IF mark_executable THEN <<Command("chmod +x", echo_file_path, FirstHop)>>
        ELSE <<>>)
    \o <<Command("echo finished writing", echo_file_path, FirstHop),
         Command("du -sh", echo_file_path, FirstHop)>>

\* Mutant: the files of a folder are written without the chmod +x.
RECURSIVE FolderFiles_NotExecutable(_, _, _, _)
FolderFiles_NotExecutable(files, i, echo_path, file_substitutions) ==
    IF i > Len(files) THEN <<>>
    ELSE write_echo_commands_for_file(files[i].content, echo_path \o <<files[i].name>>,
             FALSE, FileSubs(file_substitutions, files[i].name))
         \o FolderFiles_NotExecutable(files, i + 1, echo_path, file_substitutions)

\* Mutant: the map is looked up under the path the file is delivered at,
\* relative to the staged directory.
RECURSIVE FolderFiles_ByDeliveredPath(_, _, _, _)
FolderFiles_ByDeliveredPath(files, i, echo_path, file_substitutions) ==
    IF i > Len(files) THEN <<>>
    ELSE write_echo_commands_for_file(files[i].content, echo_path \o <<files[i].name>>,
             TRUE,
             FileSubs(file_substitutions,
                 IF Len(echo_path) = 1 THEN files[i].name
                 ELSE IF files[i].name = "main.sh" THEN "shared/main.sh"
                 ELSE "shared/delete.sh"))
         \o FolderFiles_ByDeliveredPath(files, i + 1, echo_path, file_substitutions)

\* The loop of write_echo_commands_for_folder over the files, from file i on.
RECURSIVE FolderFiles(_, _, _, _)
FolderFiles(files, i, echo_path, file_substitutions) ==
    IF i > Len(files) THEN <<>>
    ELSE write_echo_commands_for_file(files[i].content, echo_path \o <<files[i].name>>,
             TRUE, FileSubs(file_substitutions, files[i].name))
         \o FolderFiles(files, i + 1, echo_path, file_substitutions)

write_echo_commands_for_folder(files, echo_path, file_substitutions) ==
    <<Command("mkdir -p", echo_path, FirstHop)>>
    \o FolderFiles(files, 1, echo_path, file_substitutions)

\* bastion is None: the entry file runs where the script runs.
EntryDirect(entrypoint) ==
    <<Command("cd", <<RemoteDir>>, FirstHop),
      Command("bash", <<entrypoint>>, FirstHop),
      Command("cd", <<"..">>, FirstHop)>>

\* Mutant: the teardown entry is ignored, main.sh is run.
EntryProxied_AlwaysMain(host, entrypoint) ==
    write_echo_commands_for_file(PrivateKeyContent, <<KeyFile>>, FALSE, {})
    \o <<Command("chmod 400", <<KeyFile>>, FirstHop),
         Command("echo sfs here", <<"1">>, FirstHop),
         Session("while ! ssh true", <<KeyFile>>, host),
         Session("sftp put -r", <<RemoteDir>>, host),
         Command("echo sfs here", <<"2">>, FirstHop),
         Session("ssh", <<KeyFile>>, host),
         Command("cd", <<RemoteDir>>, Target),
         Command("sudo bash", <<"main.sh">>, Target),
         Command("cd", <<"..">>, Target),
         Command("rm -rf", <<RemoteDir>>, Target),
         Command("echo sfs here", <<"3">>, FirstHop)>>

\* Mutant: the directory is put on the host before the host was probed.
EntryProxied_PutBeforeProbe(host, entrypoint) ==
    write_echo_commands_for_file(PrivateKeyContent, <<KeyFile>>, FALSE, {})
    \o <<Command("chmod 400", <<KeyFile>>, FirstHop),
         Command("echo sfs here", <<"1">>, FirstHop),
         Session("sftp put -r", <<RemoteDir>>, host),
         Session("while ! ssh true", <<KeyFile>>, host),
         Command("echo sfs here", <<"2">>, FirstHop),
         Session("ssh", <<KeyFile>>, host),
         Command("cd", <<RemoteDir>>, Target),
         Command("sudo bash", <<entrypoint>>, Target),
         Command("cd", <<"..">>, Target),
         Command("rm -rf", <<RemoteDir>>, Target),
         Command("echo sfs here", <<"3">>, FirstHop)>>

\* bastion is given: the key copy is written, the host is probed until it
\* answers, the directory is put on the host, and the entry file runs in an
\* inner session that then removes the directory on the host.
EntryProxied(host, entrypoint) ==
    write_echo_commands_for_file(PrivateKeyContent, <<KeyFile>>, FALSE, {})
    \o <<Command("chmod 400", <<KeyFile>>, FirstHop),
         Command("echo sfs here", <<"1">>, FirstHop),
         Session("while ! ssh true", <<KeyFile>>, host),
         Session("sftp put -r", <<RemoteDir>>, host),
         Command("echo sfs here", <<"2">>, FirstHop),
         Session("ssh", <<KeyFile>>, host),
         Command("cd", <<RemoteDir>>, Target),
         Command("sudo bash", <<entrypoint>>, Target),
         Command("cd", <<"..">>, Target),
         Command("rm -rf", <<RemoteDir>>, Target),
         Command("echo sfs here", <<"3">>, FirstHop)>>

\* single_file_script of execute_remotely, command by command.
single_file_script(fsys, script_name, file_substitutions, host, private_key, bastion, shared_script_name, entrypoint) ==
    <<Command("cd", <<"/usr/local/src">>, FirstHop),
      Command("echo sfs here", <<"0">>, FirstHop)>>
    \o write_echo_commands_for_folder(fsys[script_name], <<RemoteDir>>, file_substitutions)
    \o (IF shared_script_name # None
        THEN write_echo_commands_for_folder(fsys[shared_script_name],
                 <<RemoteDir, "shared">>, file_substitutions)
        ELSE <<>>)
    \o (IF bastion = None THEN EntryDirect(entrypoint)
        ELSE EntryProxied(host, entrypoint))
    \o <<Command("rm -rf", <<RemoteDir>>, FirstHop)>>
    \o (IF bastion # None THEN <<Command("rm -f", <<KeyFile>>, FirstHop)>> ELSE <<>>)

----------------------------------------------------------------------------
(* One call of create, diff or delete, step by step *)

\* The local directories of the call: scripts/a has a delete.sh, scripts/b
\* has none.
RunFs ==
    [InitFs EXCEPT !["scripts/b"] = <<[name |-> "main.sh", content |-> <<1>>]>>]

\* The inputs of the calls followed step by step: one key, one shared
\* directory.
RunInputs ==
    {i \in Inputs : /\ i.private_key = "key.pem"
                    /\ i.shared_script_name \in {None, "scripts/shared"}}

\* The local directories as they were when an earlier create ran: both
\* files of scripts/a had other bytes, scripts/b had a delete.sh.
EarlierFs ==
    [RunFs EXCEPT !["scripts/a"] = <<[name |-> "main.sh", content |-> <<1>>],
                                     [name |-> "delete.sh", content |-> <<1>>]>>,
                  !["scripts/b"] = InitFs["scripts/b"]]

\* The records a delete or diff may be handed: what a create stored, over
\* the directories as they are or as they were.
Olds ==
    {execute_remotely(f, i.script_name, i.file_substitutions, i.host,
                      i.private_key, i.bastion, i.shared_script_name, TRUE) :
        f \in {RunFs, EarlierFs}, i \in RunInputs}

\* The key copy on the jump-host: how much of the key it holds ("none" when
\* there is no file) and whether chmod 400 was applied to it.
NoKeyFile == [content |-> "none", restricted |-> FALSE]

\* The local directories that hold a file the process cannot read: none of
\* them, or all of them.
Unreadable == {{}, Dirs}

\* The call as the engine makes it: create and delete with their one
\* argument, diff with the stored record and the new inputs.
Call(op, props, olds, unreadable) ==
    [pc |-> "called", op |-> op, props |-> props, olds |-> olds,
     unreadable |-> unreadable, entrypoint |-> None,
     script |-> <<>>, attempts |-> 0, sleeps |-> 0, connects |-> {},
     uploaded |-> FALSE, ip |-> 1, status |-> "not run", staged |-> {},
     scriptFile |-> FALSE, keyFile |-> NoKeyFile, probed |-> FALSE,
     exception |-> None, diagnostic |-> Absent, result |-> Absent]

InitRun ==
    run \in {Call("create", i, Absent, u) : i \in RunInputs, u \in Unreadable}
             \cup {Call("delete", o, Absent, u) : o \in Olds, u \in Unreadable}
             \cup {Call("diff", i, o, u) : i \in RunInputs, o \in Olds, u \in Unreadable}

\* Mutant: an exception of create is re-raised without the diagnostic file.
Raised_NoDiagnostic(r, exception) ==
    [r EXCEPT !.pc = "raised", !.exception = exception]

\* The call ends with an exception.  create catches it, appends the inputs
\* and the traceback to remote_execution_error_<id>.txt and raises it again;
\* diff and delete let it pass.
Raised(r, exception) ==
    [r EXCEPT !.pc = "raised", !.exception = exception,
              !.diagnostic = IF r.op = "create"
                             THEN [inputs |-> r.props, trace |-> exception]
                             ELSE Absent]

\* Mutant: a file that cannot be read is skipped.
HashRaises_Skips(unreadable, script_name, shared_script_name) == FALSE

\* hash_directory opens every file of the directory: the open raises for a
\* file that cannot be read, before any digest is returned.
HashRaises(unreadable, script_name, shared_script_name) ==
    \/ script_name \in unreadable
    \/ shared_script_name # None /\ shared_script_name \in unreadable

\* The script of the call's execute_remotely for the given entry file.
\* Mutant: a record is torn down with the files its create delivered.
ScriptOf_AsCreated(props, entrypoint) ==
    single_file_script(
        IF /\ "script_hash" \in DOMAIN props
           /\ props.script_hash[1] = hash_directory(EarlierFs, props.script_name)
        THEN EarlierFs ELSE fs,
        props.script_name, Get(props, "file_substitutions"),
        props.host, props.private_key, Get(props, "bastion"),
        Get(props, "shared_script_name"), entrypoint)

\* The script of the call, assembled over the local directories as they
\* are when the call is made.
ScriptOf(props, entrypoint) ==
    single_file_script(fs, props.script_name, Get(props, "file_substitutions"),
        props.host, props.private_key, Get(props, "bastion"),
        Get(props, "shared_script_name"), entrypoint)

\* create: execute_remotely with the default entry file, main.sh.
CallCreate ==
    /\ run.pc = "called"
    /\ run.op = "create"
    /\ run' = IF HashRaises(run.unreadable, run.props.script_name,
                             Get(run.props, "shared_script_name"))
              THEN Raised(run, "OSError")
              ELSE [run EXCEPT !.pc = "connect", !.entrypoint = "main.sh",
                               !.script = ScriptOf(run.props, "main.sh")]

\* delete: returns at once when the directory of the record holds no
\* delete.sh, else execute_remotely with the entry file delete.sh.
CallDelete ==
    /\ run.pc = "called"
    /\ run.op = "delete"
    /\ run' = IF ~HasDeleteScript(fs, run.props)
              THEN [run EXCEPT !.pc = "returned"]
              ELSE IF HashRaises(run.unreadable, run.props.script_name,
                                 Get(run.props, "shared_script_name"))
              THEN Raised(run, "OSError")
              ELSE [run EXCEPT !.pc = "connect", !.entrypoint = "delete.sh",
                               !.script = ScriptOf(run.props, "delete.sh")]

\* diff: the fingerprint of the new inputs' directories is taken, then the
\* comparisons are made; nothing is sent anywhere.
CallDiff ==
    /\ run.pc = "called"
    /\ run.op = "diff"
    /\ run' = IF HashRaises(run.unreadable, run.props.script_name,
                             Get(run.props, "shared_script_name"))
              THEN Raised(run, "OSError")
              ELSE [run EXCEPT !.pc = "returned",
                               !.result = diff(fs, run.olds, run.props)]

\* client.connect(hostname = host if bastion is None else bastion,
\*                key_filename = private_key)
ConnectArgs(props) ==
    [hostname |-> IF Get(props, "bastion") = None THEN props.host
                  ELSE Get(props, "bastion"),
     key_filename |-> props.private_key]

\* Mutant: a failed attempt is not followed by a sleep.
ConnectFails_NoSleep ==
    /\ run.pc = "connect"
    /\ run.attempts < RetryBound
    /\ run' = [run EXCEPT !.attempts = @ + 1,
                          !.connects = @ \cup {ConnectArgs(run.props)}]

\* An attempt of the loop raises: sleep, then the next turn.
ConnectFails ==
    /\ run.pc = "connect"
    /\ run.attempts < RetryBound
    /\ run' = [run EXCEPT !.attempts = @ + 1, !.sleeps = @ + 1,
                          !.connects = @ \cup {ConnectArgs(run.props)}]

\* An attempt of the loop connects.
ConnectSucceeds ==
    /\ run.pc = "connect"
    /\ run.attempts < RetryBound
    /\ run' = [run EXCEPT !.attempts = @ + 1, !.pc = "upload",
                          !.connects = @ \cup {ConnectArgs(run.props)}]

\* Mutant: the exhausted loop returns a record all the same.
LoopEnds_ReturnsRecord ==
    /\ run.pc = "connect"
    /\ run.attempts = RetryBound
    /\ run' = [run EXCEPT !.pc = "returned",
                  !.result = execute_remotely(fs, run.props.script_name,
                      Get(run.props, "file_substitutions"), run.props.host,
                      run.props.private_key, Get(run.props, "bastion"),
                      Get(run.props, "shared_script_name"), TRUE)]

\* Mutant: a loop that never connected ends with an exception.
LoopEnds_Raises ==
    /\ run.pc = "connect"
    /\ run.attempts = RetryBound
    /\ run' = Raised(run, "timeout")

\* The loop has made its last turn without connecting: the function falls
\* off its end.
LoopEnds ==
    /\ run.pc = "connect"
    /\ run.attempts = RetryBound
    /\ run' = [run EXCEPT !.pc = "returned",
                  !.result = execute_remotely(fs, run.props.script_name,
                      Get(run.props, "file_substitutions"), run.props.host,
                      run.props.private_key, Get(run.props, "bastion"),
                      Get(run.props, "shared_script_name"), FALSE)]

\* The script is written to a file of the first hop and made executable.
Upload ==
    /\ run.pc = "upload"
    /\ run' = [run EXCEPT !.pc = "exec", !.uploaded = TRUE, !.scriptFile = TRUE]

\* Mutant: a failure of the upload is swallowed like a failed connection
\* and the loop goes on.
UploadRaises_Retries ==
    /\ run.pc = "upload"
    /\ \E partial \in BOOLEAN :
          run' = [run EXCEPT !.pc = "connect", !.scriptFile = partial,
                             !.sleeps = @ + 1]

\* open_sftp, the write or the chmod raises: the file may or may not have
\* been created on the first hop.
UploadRaises ==
    /\ run.pc = "upload"
    /\ \E partial \in BOOLEAN :
          run' = Raised([run EXCEPT !.scriptFile = partial], "SSHException")

\* Where the staged directory exists once command c has run.
StagedAfter(staged, c) ==
    IF c.cmd = "mkdir -p" /\ c.path = <<RemoteDir>> THEN staged \cup {c.at}
    ELSE IF c.cmd = "sftp put -r" THEN staged \cup {Target}
    ELSE IF c.cmd = "rm -rf" /\ c.path = <<RemoteDir>> THEN staged \ {c.at}
    ELSE staged

EntryCommands == {"bash", "sudo bash"}

\* The exit status of a command, as far as the script could tell.
ExitStatuses == {"zero", "non-zero"}

\* Mutant: the script stops at the first command that fails.
NextCommand_ExitOnError(script, ip, status) ==
    IF status = "zero" THEN ip + 1 ELSE Len(script) + 1

\* sudo bash <script>: the commands run one after the other, whatever the
\* exit status of the one before.
NextCommand(script, ip, status) == ip + 1

\* The key copy once command c has run; written tells whether an echo into
\* it could write.
KeyFileAfter(keyFile, c, written) ==
    IF c.cmd = "echo >>" /\ c.path = <<KeyFile>>
    THEN [content |-> IF written THEN "full" ELSE "partial", restricted |-> FALSE]
    ELSE IF c.cmd = "chmod 400" /\ c.path = <<KeyFile>>
    THEN [keyFile EXCEPT !.restricted = TRUE]
    ELSE IF c.cmd = "rm -f" /\ c.path = <<KeyFile>> THEN NoKeyFile
    ELSE keyFile

\* One command of the script runs.  The entry file ends with some exit
\* status; the probe of the host is repeated until it succeeds, which takes
\* the whole key; the echo into the key copy may fail to write.
ExecCommand ==
    /\ run.pc = "exec"
    /\ run.ip <= Len(run.script)
    /\ LET c == run.script[run.ip]
       IN  \/ /\ c.cmd \in EntryCommands
              /\ \E status \in ExitStatuses :
                    run' = [run EXCEPT !.status = status,
                               !.ip = NextCommand(run.script, run.ip, status)]
           \/ /\ c.cmd = "while ! ssh true"
              /\ \E answers \in BOOLEAN :
                    run' = IF answers /\ run.keyFile.content = "full"
                           THEN [run EXCEPT !.probed = TRUE,
                                     !.ip = NextCommand(run.script, run.ip, "zero")]
                           ELSE [run EXCEPT !.probed = TRUE]
           \/ /\ c.cmd = "echo >>" /\ c.path = <<KeyFile>>
              /\ \E written \in BOOLEAN :
                    run' = [run EXCEPT
                               !.ip = NextCommand(run.script, run.ip,
                                          IF written THEN "zero" ELSE "non-zero"),
                               !.keyFile = KeyFileAfter(@, c, written)]
           \/ /\ c.cmd \notin EntryCommands \cup {"while ! ssh true"}
              /\ ~(c.cmd = "echo >>" /\ c.path = <<KeyFile>>)
              /\ run' = [run EXCEPT !.ip = NextCommand(run.script, run.ip, "zero"),
                                    !.staged = StagedAfter(@, c),
                                    !.keyFile = KeyFileAfter(@, c, TRUE)]

\* exec_simple raises while the script, or the removal of its file, runs:
\* the channel timed out or broke.
ExecRaises ==
    /\ run.pc = "exec"
    /\ run' = Raised(run, "timeout")

\* Mutant: a non-zero exit status of the entry file is raised as an error.
Return_FailsOnNonZero ==
    /\ run.pc = "exec"
    /\ run.ip > Len(run.script)
    /\ run' = IF run.status = "non-zero"
              THEN Raised([run EXCEPT !.scriptFile = FALSE], "non-zero exit")
              ELSE [run EXCEPT !.pc = "returned", !.scriptFile = FALSE,
                       !.result = execute_remotely(fs, run.props.script_name,
                           Get(run.props, "file_substitutions"), run.props.host,
                           run.props.private_key, Get(run.props, "bastion"),
                           Get(run.props, "shared_script_name"), TRUE)]

\* The script has ended: its file is removed, the client is closed and the
\* outputs are returned.
Return ==
    /\ run.pc = "exec"
    /\ run.ip > Len(run.script)
    /\ run' = [run EXCEPT !.pc = "returned", !.scriptFile = FALSE,
                  !.result = execute_remotely(fs, run.props.script_name,
                      Get(run.props, "file_substitutions"), run.props.host,
                      run.props.private_key, Get(run.props, "bastion"),
                      Get(run.props, "shared_script_name"), TRUE)]

RunInit ==
    /\ fs = RunFs
    /\ desired = InitInputs
    /\ record = Absent
    /\ oldRecord = Absent
    /\ diffResult = NoDiff
    /\ executed = "none"
    /\ created = Absent
    /\ edits = 0
    /\ changes = 0
    /\ IdleTemplate
    /\ InitRun
    /\ IdleAux

NextRun ==
    \/ CallCreate /\ UNCHANGED <<lifecycleVars, templateVars, auxVars>>
    \/ CallDelete /\ UNCHANGED <<lifecycleVars, templateVars, auxVars>>
    \/ CallDiff /\ UNCHANGED <<lifecycleVars, templateVars, auxVars>>
    \/ ConnectFails /\ UNCHANGED <<lifecycleVars, templateVars, auxVars>>
    \/ ConnectSucceeds /\ UNCHANGED <<lifecycleVars, templateVars, auxVars>>
    \/ LoopEnds /\ UNCHANGED <<lifecycleVars, templateVars, auxVars>>
    \/ Upload /\ UNCHANGED <<lifecycleVars, templateVars, auxVars>>
    \/ UploadRaises /\ UNCHANGED <<lifecycleVars, templateVars, auxVars>>
    \/ ExecCommand /\ UNCHANGED <<lifecycleVars, templateVars, auxVars>>
    \/ ExecRaises /\ UNCHANGED <<lifecycleVars, templateVars, auxVars>>
    \/ Return /\ UNCHANGED <<lifecycleVars, templateVars, auxVars>>

SpecRun == RunInit /\ [][NextRun]_vars

----------------------------------------------------------------------------
(* write_echo_commands_for_folder over a directory tree *)

DirNames == {"lib", "etc"}

\* The paths, relative to the walked folder, of the directories down to
\* depth n.
RECURSIVE PathsUpTo(_)
PathsUpTo(n) ==
    IF n = 0 THEN {<<>>}
    ELSE PathsUpTo(n - 1) \cup {Append(p, d) : p \in PathsUpTo(n - 1), d \in DirNames}

\* A tree is the set of its directories: the walked folder itself and, with
\* every directory, its parent.
Trees ==
    {D \in SUBSET PathsUpTo(MaxDepth) :
        /\ <<>> \in D
        /\ \A p \in D : p # <<>> => SubSeq(p, 1, Len(p) - 1) \in D}

\* The order in which a listing yields the sub-directories of a directory.
Listings == {<<"lib", "etc">>, <<"etc", "lib">>}

\* The files of a directory: one file, or none when the directory's name is
\* among the empty ones ("." names the walked folder).
FilesOf(p, empty) ==
    IF (IF p = <<>> THEN "." ELSE p[Len(p)]) \in empty THEN <<>>
    ELSE <<[name |-> "main.sh", content |-> <<0>>]>>

\* os.walk(top): top-down, a directory before its sub-directories, the
\* sub-directories in listing order.
RECURSIVE os_walk(_, _, _)
RECURSIVE WalkChildren(_, _, _, _)
os_walk(tree, listing, root) ==
    <<root>> \o WalkChildren(tree, listing, root, 1)

WalkChildren(tree, listing, root, k) ==
    IF k > Len(listing) THEN <<>>
    ELSE (IF Append(root, listing[k]) \in tree
          THEN os_walk(tree, listing, Append(root, listing[k]))
          ELSE <<>>)
         \o WalkChildren(tree, listing, root, k + 1)

\* Mutant: the directory is made after its files were written.
WalkDir_FilesFirst(relative_root, files, echo_path) ==
    FolderFiles(files, 1, echo_path \o relative_root, {})
    \o (IF relative_root # <<>>
        THEN <<Command("mkdir -p", echo_path \o relative_root, FirstHop)>>
        ELSE <<>>)

\* One turn of the loop over os.walk: the mkdir -p of the directory unless
\* it is the walked folder itself, then its files.
WalkDir(relative_root, files, echo_path) ==
    (IF relative_root # <<>>
     THEN <<Command("mkdir -p", echo_path \o relative_root, FirstHop)>>
     ELSE <<>>)
    \o FolderFiles(files, 1, echo_path \o relative_root, {})

\* The loop over the directories os.walk yields, from the i-th on.
RECURSIVE WalkDirs(_, _, _, _)
WalkDirs(roots, i, empty, echo_path) ==
    IF i > Len(roots) THEN <<>>
    ELSE WalkDir(roots[i], FilesOf(roots[i], empty), echo_path)
         \o WalkDirs(roots, i + 1, empty, echo_path)

\* write_echo_commands_for_folder for a folder with sub-directories.
write_echo_commands_for_tree(tree, listing, empty, echo_path) ==
    <<Command("mkdir -p", echo_path, FirstHop)>>
    \o WalkDirs(os_walk(tree, listing, <<>>), 1, empty, echo_path)

InitFolder ==
    folder \in
        {[pc |-> "called", tree |-> t, listing |-> l, empty |-> e,
          echo_path |-> p, commands |-> <<>>] :
            t \in Trees, l \in Listings, e \in SUBSET (DirNames \cup {"."}),
            p \in {<<RemoteDir>>, <<RemoteDir, "shared">>}}

\* The folder is walked and its commands are written.
WriteFolder ==
    /\ folder.pc = "called"
    /\ folder' = [folder EXCEPT !.pc = "written",
                     !.commands = write_echo_commands_for_tree(folder.tree,
                         folder.listing, folder.empty, folder.echo_path)]

FolderInit ==
    /\ InitLifecycle /\ IdleTemplate /\ IdleRun
    /\ InitFolder /\ chan = Idle /\ pair = Idle

NextFolder ==
    WriteFolder /\ UNCHANGED <<lifecycleVars, templateVars, runVars, chan, pair>>

SpecFolder == FolderInit /\ [][NextFolder]_vars

----------------------------------------------------------------------------
(* exec_simple: one command, its two streams and the reader *)

ReadSize == 2   \* stands for the 4096 of stdout.read(4096) / stderr.read(4096)

Streams == {"out", "err"}

\* What the remote process does: the streams it writes one byte to, in
\* order, before it exits.
Programs == UNION {[1..n -> Streams] : n \in 0..MaxWrites}

InitChan ==
    chan \in
        {[pc |-> "check", prog |-> p, next |-> 1,
          written |-> [out |-> <<>>, err |-> <<>>],
          buf |-> [out |-> <<>>, err |-> <<>>],
          exited |-> FALSE, exit_status_ready |-> FALSE,
          cur |-> <<>>, got |-> [out |-> <<>>, err |-> <<>>],
          drained |-> 0] : p \in Programs}

\* The remote process writes its next byte; it waits while the stream of
\* the channel is full.  The byte is numbered by its place in the program.
ProcessWrites ==
    /\ chan.pc # "idle"
    /\ chan.next <= Len(chan.prog)
    /\ LET st == chan.prog[chan.next]
       IN  /\ Len(chan.buf[st]) < BufSize
           /\ chan' = [chan EXCEPT !.buf[st] = Append(@, chan.next),
                                   !.written[st] = Append(@, chan.next),
                                   !.next = @ + 1]

\* The remote process has written everything and exits: both streams end.
ProcessExits ==
    /\ chan.pc # "idle"
    /\ chan.next > Len(chan.prog)
    /\ ~chan.exited
    /\ chan' = [chan EXCEPT !.exited = TRUE]

\* The exit status reaches the client.
ExitStatusArrives ==
    /\ chan.pc # "idle"
    /\ chan.exited
    /\ ~chan.exit_status_ready
    /\ chan' = [chan EXCEPT !.exit_status_ready = TRUE]

\* Mutant: the function returns as soon as the exit status is ready.
LoopCheck_NoDrain ==
    /\ chan.pc = "check"
    /\ chan' = [chan EXCEPT !.pc = IF chan.exit_status_ready THEN "returned"
                                   ELSE "read stdout"]

\* while not chan.exit_status_ready(): the loop is entered, or left for the
\* two draining loops.
LoopCheck ==
    /\ chan.pc = "check"
    /\ chan' = [chan EXCEPT !.pc = IF chan.exit_status_ready THEN "drain stdout"
                                   ELSE "read stdout"]

Reading == {"read stdout", "read stderr", "drain stdout", "drain stderr"}

\* The stream the read in progress reads.
StreamOf(pc) == IF pc \in {"read stdout", "drain stdout"} THEN "out" ELSE "err"

\* The stream has ended and nothing of it is left in the channel.
AtEof(st) == chan.exited /\ chan.buf[st] = <<>>

\* The read in progress takes a byte from the channel: read(4096) goes on
\* receiving until it has its 4096 bytes or the stream has ended.
Receive ==
    /\ chan.pc \in Reading
    /\ Len(chan.cur) < ReadSize
    /\ chan.buf[StreamOf(chan.pc)] # <<>>
    /\ chan' = [chan EXCEPT !.cur = Append(@, Head(chan.buf[StreamOf(chan.pc)])),
                            !.buf[StreamOf(chan.pc)] = Tail(@)]

\* The read returns what it received, which is appended to the collected
\* output of the stream; a draining loop ends on an empty read.
ReadReturns ==
    /\ chan.pc \in Reading
    /\ Len(chan.cur) = ReadSize \/ AtEof(StreamOf(chan.pc))
    /\ chan' = [chan EXCEPT
          !.got[StreamOf(chan.pc)] = @ \o chan.cur,
          !.cur = <<>>,
          !.drained = IF chan.pc \in {"drain stdout", "drain stderr"}
                      THEN @ + Len(chan.cur) ELSE @,
          !.pc = IF chan.pc = "read stdout" THEN "read stderr"
                 ELSE IF chan.pc = "read stderr" THEN "check"
                 ELSE IF chan.cur # <<>> THEN chan.pc
                 ELSE IF chan.pc = "drain stdout" THEN "drain stderr"
                 ELSE "returned"]

\* The read waits for data that does not come: after cmd_timeout seconds
\* the receive raises socket.timeout, which leaves exec_simple.
ReadTimesOut ==
    /\ chan.pc \in Reading
    /\ Len(chan.cur) < ReadSize
    /\ chan.buf[StreamOf(chan.pc)] = <<>>
    /\ ~chan.exited
    /\ chan' = [chan EXCEPT !.pc = "raised"]

ExecInit ==
    /\ InitLifecycle /\ IdleTemplate /\ IdleRun
    /\ folder = Idle /\ InitChan /\ pair = Idle

NextExec ==
    \/ ProcessWrites /\ UNCHANGED <<lifecycleVars, templateVars, runVars, folder, pair>>
    \/ ProcessExits /\ UNCHANGED <<lifecycleVars, templateVars, runVars, folder, pair>>
    \/ ExitStatusArrives /\ UNCHANGED <<lifecycleVars, templateVars, runVars, folder, pair>>
    \/ LoopCheck /\ UNCHANGED <<lifecycleVars, templateVars, runVars, folder, pair>>
    \/ Receive /\ UNCHANGED <<lifecycleVars, templateVars, runVars, folder, pair>>
    \/ ReadReturns /\ UNCHANGED <<lifecycleVars, templateVars, runVars, folder, pair>>
    \/ ReadTimesOut /\ UNCHANGED <<lifecycleVars, templateVars, runVars, folder, pair>>

SpecExec == ExecInit /\ [][NextExec]_vars

----------------------------------------------------------------------------
(* Two executions through one jump-host to one host at the same time *)

Executions == {"A", "B"}

\* The names secrets.token_hex(8) may return for a staged directory or a
\* key copy, both of which lie in /usr/local/src of the jump-host, and for a
\* script file, which lies in the home directory.
Tokens == {"t1", "t2", "t3", "t4"}
ScriptTokens == {"s1.sh", "s2.sh"}

\* One execution before its upload: its three names, and what it has found
\* under them when it used them.
Execution(remote_dir, key_file, iden) ==
    [pc |-> "upload", remote_dir |-> remote_dir, key_file |-> key_file,
     iden |-> iden, script_ran |-> <<>>, key_used |-> <<>>, entry_ran |-> <<>>]

\* A path holds the marks of the executions that wrote to it, in order; a
\* path that holds nothing does not exist.
InitPair ==
    pair \in
        {[home |-> [n \in ScriptTokens |-> <<>>],
          src |-> [n \in Tokens |-> <<>>],
          target |-> [n \in Tokens |-> <<>>],
          ex |-> [e \in Executions |->
                     IF e = "A" THEN Execution("t1", "t2", "s1.sh")
                     ELSE Execution(d, k, i)]] :
            d \in Tokens, k \in Tokens, i \in ScriptTokens}

\* Mutant: a removal takes everything that lies beside the named path.
Remove_Everything(files, name) == [n \in DOMAIN files |-> <<>>]

\* rm -rf / rm -f / rm of one path.
Remove(files, name) == [files EXCEPT ![name] = <<>>]

\* sftp.open(path, "w") and write: the script file is created or replaced.
UploadScript(e) ==
    /\ pair.ex[e].pc = "upload"
    /\ pair' = [pair EXCEPT !.home[pair.ex[e].iden] = <<e>>,
                            !.ex[e].pc = "stage"]

\* sudo bash <script file>; its first commands make the staged directory
\* and append the bundle's lines to the files in it.
StageBundle(e) ==
    /\ pair.ex[e].pc = "stage"
    /\ pair' = [pair EXCEPT !.src[pair.ex[e].remote_dir] = Append(@, e),
                            !.ex[e].script_ran = pair.home[pair.ex[e].iden],
                            !.ex[e].pc = "key"]

\* The key is appended to the key copy.
StageKey(e) ==
    /\ pair.ex[e].pc = "key"
    /\ pair' = [pair EXCEPT !.src[pair.ex[e].key_file] = Append(@, e),
                            !.ex[e].pc = "probe"]

\* The probe, and the sessions after it, read the key copy.
Probe(e) ==
    /\ pair.ex[e].pc = "probe"
    /\ pair' = [pair EXCEPT !.ex[e].key_used = pair.src[pair.ex[e].key_file],
                            !.ex[e].pc = "put"]

\* sftp put -r: the staged directory is copied to the host.
PutBundle(e) ==
    /\ pair.ex[e].pc = "put"
    /\ pair' = [pair EXCEPT !.target[pair.ex[e].remote_dir] =
                                pair.src[pair.ex[e].remote_dir],
                            !.ex[e].pc = "entry"]

\* The inner session runs the entry file it finds in the directory.
RunEntry(e) ==
    /\ pair.ex[e].pc = "entry"
    /\ pair' = [pair EXCEPT !.ex[e].entry_ran = pair.target[pair.ex[e].remote_dir],
                            !.ex[e].pc = "rm target"]

RemoveOnTarget(e) ==
    /\ pair.ex[e].pc = "rm target"
    /\ pair' = [pair EXCEPT !.target = Remove(@, pair.ex[e].remote_dir),
                            !.ex[e].pc = "rm hop"]

RemoveOnHop(e) ==
    /\ pair.ex[e].pc = "rm hop"
    /\ pair' = [pair EXCEPT !.src = Remove(@, pair.ex[e].remote_dir),
                            !.ex[e].pc = "rm key"]

RemoveKey(e) ==
    /\ pair.ex[e].pc = "rm key"
    /\ pair' = [pair EXCEPT !.src = Remove(@, pair.ex[e].key_file),
                            !.ex[e].pc = "rm script"]

\* exec_simple(client, "rm <script file>")
RemoveScript(e) ==
    /\ pair.ex[e].pc = "rm script"
    /\ pair' = [pair EXCEPT !.home = Remove(@, pair.ex[e].iden),
                            !.ex[e].pc = "done"]

PairInit ==
    /\ InitLifecycle /\ IdleTemplate /\ IdleRun
    /\ folder = Idle /\ chan = Idle /\ InitPair

NextPair ==
    \/ (\E e \in Executions : UploadScript(e)) /\ UNCHANGED <<lifecycleVars, templateVars, runVars, folder, chan>>
    \/ (\E e \in Executions : StageBundle(e)) /\ UNCHANGED <<lifecycleVars, templateVars, runVars, folder, chan>>
    \/ (\E e \in Executions : StageKey(e)) /\ UNCHANGED <<lifecycleVars, templateVars, runVars, folder, chan>>
    \/ (\E e \in Executions : Probe(e)) /\ UNCHANGED <<lifecycleVars, templateVars, runVars, folder, chan>>
    \/ (\E e \in Executions : PutBundle(e)) /\ UNCHANGED <<lifecycleVars, templateVars, runVars, folder, chan>>
    \/ (\E e \in Executions : RunEntry(e)) /\ UNCHANGED <<lifecycleVars, templateVars, runVars, folder, chan>>
    \/ (\E e \in Executions : RemoveOnTarget(e)) /\ UNCHANGED <<lifecycleVars, templateVars, runVars, folder, chan>>
    \/ (\E e \in Executions : RemoveOnHop(e)) /\ UNCHANGED <<lifecycleVars, templateVars, runVars, folder, chan>>
    \/ (\E e \in Executions : RemoveKey(e)) /\ UNCHANGED <<lifecycleVars, templateVars, runVars, folder, chan>>
    \/ (\E e \in Executions : RemoveScript(e)) /\ UNCHANGED <<lifecycleVars, templateVars, runVars, folder, chan>>

SpecPair == PairInit /\ [][NextPair]_vars

----------------------------------------------------------------------------
(* Properties of the lifecycle, checked under Spec *)

Elems(s) == {s[i] : i \in DOMAIN s}

\* A diff was just evaluated over the current record, declaration and files.
DiffDone == diffResult # NoDiff

\* The bytes of a directory's files, one after the other in traversal order.
RECURSIVE ByteStream(_)
ByteStream(files) ==
    IF files = <<>> THEN <<>> ELSE Head(files).content \o ByteStream(Tail(files))

\* The fingerprint of the directories the inputs name, over the files fsys.
Fingerprint(fsys, inputs) ==
    IF inputs.shared_script_name = None
    THEN <<ByteStream(fsys[inputs.script_name])>>
    ELSE <<ByteStream(fsys[inputs.script_name]),
           ByteStream(fsys[inputs.shared_script_name])>>

\* The files of the directories the inputs name.
ContentsOf(fsys, inputs) ==
    <<fsys[inputs.script_name],
      IF inputs.shared_script_name = None THEN <<>>
      ELSE fsys[inputs.shared_script_name]>>

\* The compared fields whose stored and new values differ.
DifferingFields ==
    (IF record.script_name # desired.script_name THEN {"script_name"} ELSE {})
    \cup (IF record.file_substitutions # desired.file_substitutions
          THEN {"file_substitutions"} ELSE {})
    \cup (IF record.script_hash # Fingerprint(fs, desired)
          THEN {"script_hash"} ELSE {})
    \cup (IF record.host # desired.host THEN {"host"} ELSE {})
    \cup (IF record.bastion # desired.bastion THEN {"bastion"} ELSE {})

NoReplacement ==
    [changes |-> FALSE, replaces |-> <<>>, delete_before_replace |-> FALSE]

\* C1 as stated: when diff signals replace, delete-before-create is requested
\* if and only if the host differs between the stored record and the new
\* inputs.
C1_Original ==
    (DiffDone /\ diffResult.changes)
        => (diffResult.delete_before_replace <=> record.host # desired.host)

\* C1 amended: when diff signals replace, delete-before-create is requested
\* if and only if the host is unchanged; a changed host gives a replacement
\* without delete-before-create.
C1_DeleteBeforeReplaceIffHostUnchanged ==
    (DiffDone /\ diffResult.changes)
        => (diffResult.delete_before_replace <=> record.host = desired.host)

C1_Witness ==
    /\ DiffDone
    /\ record.host = desired.host
    /\ diffResult.replaces = <<"script_hash">>
    /\ diffResult.delete_before_replace

\* C2: diff reports no replacement (changes = false, no replace fields)
\* whenever the recomputed fingerprint, the bundle path, the substitution
\* map, the host and the jump-host all equal those of the stored record.
C2_NoReplacementWhenAllEqual ==
    (DiffDone /\ DifferingFields = {}) => diffResult = NoReplacement

C2_Witness ==
    /\ DiffDone
    /\ DifferingFields = {}
    /\ desired.shared_script_name # None
    /\ edits > 0
    /\ diffResult = NoReplacement

\* C3 as stated: when the jump-host is the only compared value that differs,
\* diff does not signal a replacement.
C3_Original ==
    (DiffDone /\ DifferingFields = {"bastion"}) => ~diffResult.changes

\* C3 amended: when the jump-host is the only compared value that differs,
\* diff signals a replacement that names the bastion field alone.
C3_BastionAloneIsReplaced ==
    (DiffDone /\ DifferingFields = {"bastion"})
        => (diffResult.changes /\ diffResult.replaces = <<"bastion">>)

C3_Witness ==
    /\ DiffDone
    /\ DifferingFields = {"bastion"}
    /\ diffResult.changes

\* C4: when diff signals replace, the names it reports are exactly the
\* compared fields whose stored and new values differ, each named once.
C4_ReplacesAreTheDifferingFields ==
    (DiffDone /\ diffResult.changes)
        => /\ Elems(diffResult.replaces) = DifferingFields
           /\ Len(diffResult.replaces) = Cardinality(DifferingFields)

C4_Witness ==
    /\ DiffDone
    /\ Cardinality(DifferingFields) = 5
    /\ Len(diffResult.replaces) = 5

\* The record as create writes it from the inputs and files of history c.
WrittenBy(c) ==
    [stdout |-> "stdout", stderr |-> "stderr",
     script_name |-> c.inputs.script_name,
     file_substitutions |-> c.inputs.file_substitutions,
     script_hash |-> Fingerprint(c.fs, c.inputs),
     private_key |-> c.inputs.private_key,
     host |-> c.inputs.host, bastion |-> c.inputs.bastion]

\* The declaration names the directories the latest create delivered.
SameDirs ==
    /\ desired.script_name = created.inputs.script_name
    /\ desired.shared_script_name = created.inputs.shared_script_name

\* The unit is as its latest successful create left it: same declaration,
\* same files in the directories it names.
Stable ==
    /\ IsRecord(record)
    /\ desired = created.inputs
    /\ ContentsOf(fs, desired) = ContentsOf(created.fs, desired)

\* Some file of the declared directories differs from what create delivered.
ContentsChanged ==
    SameDirs /\ ContentsOf(fs, desired) # ContentsOf(created.fs, desired)

\* The bytes the fingerprint covers differ from what create delivered.
StreamChanged ==
    SameDirs /\ Fingerprint(fs, desired) # Fingerprint(created.fs, desired)

HostChanged == desired.host # created.inputs.host

\* C5: after a successful create a diff with the same inputs over
\* unchanged files reports no replacement, and a diff evaluated after the
\* bundle contents or the host changed reports a replacement.
C5_Original ==
    DiffDone => /\ Stable => ~diffResult.changes
                /\ (ContentsChanged \/ HostChanged) => diffResult.changes

\* What holds of C5: after a successful create a diff with the same inputs
\* over unchanged files reports no replacement, no transition of a unit in
\* that state runs main.sh again (it ran once, in the create), and a diff
\* evaluated after the byte stream of the bundle's files or the host changed
\* reports a replacement.
C5_Idempotent ==
    /\ [](DiffDone => /\ Stable => ~diffResult.changes
                      /\ (StreamChanged \/ HostChanged) => diffResult.changes)
    /\ [][/\ Stable => executed' # "main.sh"
          /\ created' # created => executed' = "main.sh"]_vars

C5_Witness ==
    /\ DiffDone
    /\ Stable
    /\ desired.shared_script_name # None
    /\ ~diffResult.changes

\* C6: there is no update in place: a diff result that reports a change
\* names a replace field, diff leaves the stored record alone, and the stored
\* record is absent or exactly what the latest successful create wrote.
C6_NoUpdateInPlace ==
    /\ []((DiffDone /\ diffResult.changes) => diffResult.replaces # <<>>)
    /\ [](IsRecord(record) => record = WrittenBy(created))
    /\ [][/\ diffResult' # NoDiff => record' = record
          /\ record' # record =>
                \/ record' \in {Absent, NoResult}
                \/ record' = WrittenBy([inputs |-> desired, fs |-> fs])]_vars

C6_Witness ==
    /\ IsRecord(record)
    /\ IsRecord(oldRecord)
    /\ record # oldRecord
    /\ record = WrittenBy(created)

\* Two directories that differ in exactly one byte of one file.
OneByteChanged(a, b) ==
    /\ Len(a) = Len(b)
    /\ \A i \in DOMAIN a :
          /\ a[i].name = b[i].name
          /\ Len(a[i].content) = Len(b[i].content)
    /\ Cardinality({<<i, k>> \in (DOMAIN a) \X (1..MaxLen) :
            k <= Len(a[i].content) /\ a[i].content[k] # b[i].content[k]}) = 1

C8_FingerprintIgnoresInputs ==
    (DiffDone /\ SameDirs /\ ContentsOf(fs, desired) = ContentsOf(created.fs, desired))
        => /\ "script_hash" \notin Elems(diffResult.replaces)
           /\ "file_substitutions" \in Elems(diffResult.replaces)
                 <=> desired.file_substitutions # created.inputs.file_substitutions
           /\ "host" \in Elems(diffResult.replaces)
                 <=> desired.host # created.inputs.host

C8_Witness ==
    /\ DiffDone
    /\ SameDirs
    /\ ContentsOf(fs, desired) = ContentsOf(created.fs, desired)
    /\ diffResult.replaces = <<"file_substitutions", "host", "bastion">>

\* C9: with a shared directory the stored fingerprint is the primary digest
\* followed by the shared digest, each from its own accumulator; a diff after
\* a change of the shared directory's bytes names the fingerprint, and so
\* does a diff between a unit with and one without a shared directory.
C9_SharedDigestIsSeparate ==
    /\ IsRecord(record) =>
          record.script_hash =
              IF created.inputs.shared_script_name = None
              THEN <<ByteStream(created.fs[created.inputs.script_name])>>
              ELSE <<ByteStream(created.fs[created.inputs.script_name]),
                     ByteStream(created.fs[created.inputs.shared_script_name])>>
    /\ DiffDone =>
          /\ (/\ SameDirs
               /\ desired.shared_script_name # None
               /\ ByteStream(fs[desired.shared_script_name])
                     # ByteStream(created.fs[desired.shared_script_name]))
                => "script_hash" \in Elems(diffResult.replaces)
          /\ (desired.shared_script_name = None)
                    # (created.inputs.shared_script_name = None)
                => "script_hash" \in Elems(diffResult.replaces)

C9_Witness ==
    /\ DiffDone
    /\ SameDirs
    /\ desired.shared_script_name # None
    /\ fs[desired.script_name] = created.fs[desired.script_name]
    /\ ByteStream(fs[desired.shared_script_name])
          # ByteStream(created.fs[desired.shared_script_name])
    /\ diffResult.replaces = <<"script_hash">>

----------------------------------------------------------------------------
(* Properties of the templating, checked under SpecTemplate *)

Token(key) == <<"{", "{">> \o key \o <<"}", "}">>

NLCount(text) == Cardinality({i \in DOMAIN text : text[i] = NL})

\* The lines joined by newlines.
RECURSIVE JoinNL(_)
JoinNL(lines) ==
    IF lines = <<>> THEN <<>>
    ELSE IF Len(lines) = 1 THEN Head(lines)
    ELSE Head(lines) \o <<NL>> \o JoinNL(Tail(lines))

\* C10: for a line made of leading whitespace W and a single {{NAME}} token
\* whose value has k lines, apply_substitutions returns k lines, each W
\* followed by the corresponding line of the value; "  {{X}}\n" with
\* X -> "a\nb" is delivered as "  a\n  b\n".
C10_WholeLineExpansion ==
    outLines # NotRun =>
        /\ \A n \in 0..MaxSegs, key \in Keys, e \in {<<>>, <<NL>>} :
              LET W == [i \in 1..n |-> " "]
                  rest == [j \in DOMAIN outLines.lines |->
                              SubSeq(outLines.lines[j], n + 1, Len(outLines.lines[j]))]
              IN  (line = W \o Token(key) \o e /\ key \in DOMAIN subs)
                    => /\ outLines.status = "ok"
                       /\ Len(outLines.lines) = NLCount(subs[key]) + 1
                       /\ \A j \in DOMAIN outLines.lines :
                             /\ Len(outLines.lines[j]) >= n
                             /\ SubSeq(outLines.lines[j], 1, n) = W
                             /\ NLCount(rest[j]) = 0
                       /\ JoinNL(rest) = subs[key]
        /\ (/\ line = <<" ", " ">> \o TokenX \o <<NL>>
             /\ <<"X">> \in DOMAIN subs
             /\ subs[<<"X">>] = <<"a", NL, "b">>)
              => Delivered(outLines.lines) = <<" ", " ", "a", NL, " ", " ", "b", NL>>

C10_Witness ==
    /\ outLines.status = "ok"
    /\ line = <<" ", " ">> \o TokenX \o <<NL>>
    /\ <<"X">> \in DOMAIN subs
    /\ subs[<<"X">>] = <<"a", NL, "b">>
    /\ outLines.lines = << <<" ", " ", "a">>, <<" ", " ", "b">> >>

----------------------------------------------------------------------------
(* Properties of inline substitution and of delivery, checked under       *)
(* SpecTemplate                                                            *)

\* The names k of the model whose token {{k}} stands at position i of text.
TokenNameAt(text, i) ==
    {k \in Keys : /\ i + Len(Token(k)) - 1 <= Len(text)
                  /\ SubSeq(text, i, i + Len(Token(k)) - 1) = Token(k)}

\* The names of the tokens of a text.
TokenNames(text) == UNION {TokenNameAt(text, i) : i \in DOMAIN text}

\* The value a map gives a name, the empty text when it gives none.
ValueOrEmpty(m, k) == IF k \in DOMAIN m THEN m[k] ELSE <<>>

\* The text with every token replaced by the value of its name and every
\* other character kept.
RECURSIVE Replaced(_, _, _)
Replaced(text, i, m) ==
    IF i > Len(text) THEN <<>>
    ELSE IF TokenNameAt(text, i) # {}
    THEN LET k == CHOOSE k \in TokenNameAt(text, i) : TRUE
         IN  ValueOrEmpty(m, k) \o Replaced(text, i + Len(Token(k)), m)
    ELSE <<text[i]>> \o Replaced(text, i + 1, m)

Spaces(n) == [i \in 1..n |-> " "]

\* The line begins with whitespace (possibly none) and a token.
StartsWithToken(text) ==
    \E n \in 0..Len(text) :
        /\ SubSeq(text, 1, n) = Spaces(n)
        /\ TokenNameAt(text, n + 1) # {}

\* The name of the token a line begins with.
FirstTokenName(text) ==
    CHOOSE k \in Keys :
        \E n \in 0..Len(text) :
            SubSeq(text, 1, n) = Spaces(n) /\ k \in TokenNameAt(text, n + 1)

\* The line is nothing but leading whitespace and a single token (and the
\* newline that ends it).
WholeLinePlaceholder(text) ==
    \E n \in 0..Len(text), k \in Keys, e \in {<<>>, <<NL>>} :
        text = Spaces(n) \o Token(k) \o e

C12_Original ==
    (/\ outLines # NotRun
     /\ DOMAIN subs # {}
     /\ TokenNames(line) \subseteq DOMAIN subs
     /\ ~WholeLinePlaceholder(line))
        => outLines = [status |-> "ok", lines |-> <<Replaced(line, 1, subs)>>]

\* C13 as stated: a token whose name has no entry in the map expands to the
\* empty string in either shape, and no error is raised.
C13_Original ==
    outLines # NotRun =>
        /\ outLines.status = "ok"
        /\ ~StartsWithToken(line)
              => outLines.lines = <<Replaced(line, 1, subs)>>
        /\ (WholeLinePlaceholder(line) /\ FirstTokenName(line) \notin DOMAIN subs)
              => Delivered(outLines.lines) = RStrip(Replaced(line, 1, subs)) \o <<NL>>

\* C13 amended: with a non-empty map, a token whose name has no entry
\* expands to the empty string on a line that does not begin with a token,
\* and fails the assertion of apply_substitutions when it is the token the
\* line begins with; with an empty map every token is returned as it is.
C13_MissingKeyByShape ==
    outLines # NotRun =>
        /\ (DOMAIN subs # {} /\ ~StartsWithToken(line))
              => outLines = [status |-> "ok", lines |-> <<Replaced(line, 1, subs)>>]
        /\ (DOMAIN subs # {} /\ StartsWithToken(line)
                /\ FirstTokenName(line) \notin DOMAIN subs)
              => outLines = AssertionError
        /\ DOMAIN subs = {}
              => outLines = [status |-> "ok", lines |-> <<line>>]

C13_Witness ==
    /\ line = <<" ">> \o TokenLowerX \o <<NL>>
    /\ DOMAIN subs = {<<"X">>}
    /\ outLines = AssertionError

\* C14 as stated: with an empty substitution map, the text the emitted
\* commands append equals the source line, trailing whitespace and the
\* presence or absence of the final newline included.
C14_Original ==
    (outLines # NotRun /\ DOMAIN subs = {})
        => Delivered(outLines.lines) = line

----------------------------------------------------------------------------
(* Properties of one call of create, diff or delete, checked under SpecRun *)

\* execute_remotely was entered: a script was assembled.
Assembled == run.pc \notin {"idle", "called"} /\ run.script # <<>>

\* The script ran to its end and the call returned.
Completed == run.pc = "returned" /\ run.uploaded

\* The commands of the script that have run.
Executed == SubSeq(run.script, 1, run.ip - 1)

\* The indices of the commands that invoke an entry file.
EntryIndices(script) == {i \in DOMAIN script : script[i].cmd \in EntryCommands}

\* The staged paths of the files of the directories the call delivers.
BundlePaths ==
    {<<RemoteDir, f.name>> : f \in Elems(fs[run.props.script_name])}
    \cup (IF Get(run.props, "shared_script_name") = None THEN {}
          ELSE {<<RemoteDir, "shared", f.name>> :
                   f \in Elems(fs[Get(run.props, "shared_script_name")])})

MarkedExecutable(script) ==
    {script[i].path : i \in {j \in DOMAIN script : script[j].cmd = "chmod +x"}}

\* C15 as stated: a mark-executable command is emitted for a bundle file
\* only if the file is the entry file of the execution.
C15_Original ==
    Assembled => MarkedExecutable(run.script) \subseteq {<<RemoteDir, run.entrypoint>>}

\* C15 amended: a mark-executable command is emitted for every file of the
\* delivered directories, whichever the entry file is, once per file; the
\* copy of the private key is the only file written without one.
C15_EveryBundleFileMarked ==
    Assembled =>
        /\ MarkedExecutable(run.script) = BundlePaths
        /\ \A p \in BundlePaths :
              Cardinality({i \in DOMAIN run.script :
                              run.script[i] = Command("chmod +x", p, FirstHop)}) = 1
        /\ <<KeyFile>> \notin MarkedExecutable(run.script)

C15_Witness ==
    /\ run.pc = "exec"
    /\ run.op = "create"
    /\ run.props.bastion # None
    /\ run.props.shared_script_name # None
    /\ \E i \in DOMAIN Executed :
          Executed[i] = Command("chmod +x", <<RemoteDir, "delete.sh">>, FirstHop)
    /\ \E i \in DOMAIN Executed :
          Executed[i] = Command("chmod +x", <<RemoteDir, "shared", "main.sh">>, FirstHop)
    /\ \E i \in DOMAIN Executed : Executed[i].cmd = "chmod 400"

\* The machines the script stages the directory on.
StagedOn(script) ==
    {m \in {FirstHop, Target} :
        \E i \in DOMAIN script : m \in StagedAfter({}, script[i])}

\* C16: in both addressing modes the staged directory is removed after the
\* entry file ran, whatever its exit status: no removal runs before the
\* entry file, and in a completed execution the directory is gone from
\* every machine it was staged on, by a removal that follows the entry.
C16_StagedDirectoryRemoved ==
    /\ (run.pc = "exec" /\ run.status = "not run")
          => \A i \in DOMAIN Executed : Executed[i].cmd # "rm -rf"
    /\ Completed =>
          /\ run.status \in ExitStatuses
          /\ run.ip = Len(run.script) + 1
          /\ run.staged = {}
          /\ StagedOn(run.script) =
                 IF Get(run.props, "bastion") = None THEN {FirstHop}
                 ELSE {FirstHop, Target}
          /\ \A m \in StagedOn(run.script) :
                \E i \in EntryIndices(run.script), j \in DOMAIN run.script :
                    /\ j > i
                    /\ run.script[j] = Command("rm -rf", <<RemoteDir>>, m)

C16_Witness ==
    /\ Completed
    /\ Get(run.props, "bastion") # None
    /\ run.status = "non-zero"
    /\ run.staged = {}

\* The directory of the record holds no delete.sh.
NoTeardownFile ==
    \A f \in Elems(fs[run.props.script_name]) : f.name # "delete.sh"

\* C17: delete of a record whose directory holds no delete.sh returns with
\* no script assembled, no connection attempted and nothing run remotely.
C17_DeleteWithoutTeardownIsLocal ==
    (run.pc \notin {"idle", "called"} /\ run.op = "delete" /\ NoTeardownFile)
        => /\ run.pc = "returned"
           /\ run.script = <<>>
           /\ run.attempts = 0
           /\ run.sleeps = 0
           /\ run.connects = {}
           /\ ~run.uploaded
           /\ run.ip = 1
           /\ run.staged = {}
           /\ run.result = Absent

C17_Witness ==
    /\ run.pc = "returned"
    /\ run.op = "delete"
    /\ NoTeardownFile
    /\ run.props.bastion # None
    /\ run.attempts = 0

\* The first hop and the key of the stored record or declared inputs.
FirstHopOf(props) ==
    IF Get(props, "bastion") = None THEN props.host ELSE Get(props, "bastion")

\* C18: delete of a record whose directory holds a delete.sh assembles the
\* script over the record's directory and runs exactly one entry file,
\* delete.sh, connecting to the record's first hop with the record's key,
\* opening inner sessions to the record's host, and delivering every file
\* under the record's substitution map; create runs exactly one entry file,
\* main.sh.
C18_DeleteRunsTeardownOnly ==
    Assembled =>
        /\ Cardinality(EntryIndices(run.script)) = 1
        /\ \A i \in EntryIndices(run.script) :
              run.script[i].path =
                  IF run.op = "delete" THEN <<"delete.sh">> ELSE <<"main.sh">>
        /\ run.op = "delete" =>
              /\ ~NoTeardownFile
              /\ run.connects \subseteq
                     {[hostname |-> FirstHopOf(run.props),
                       key_filename |-> run.props.private_key]}
              /\ \A i \in DOMAIN run.script :
                    /\ run.script[i].to \in {None, run.props.host}
                    /\ run.script[i].cmd = "echo >>" /\ run.script[i].path # <<KeyFile>>
                          => \E f \in Elems(fs[run.props.script_name]) :
                                /\ run.script[i].path = <<RemoteDir, f.name>>
                                /\ run.script[i].text = f.content
                                /\ run.script[i].subs =
                                       {<<t[2], t[3]>> :
                                           t \in {u \in run.props.file_substitutions :
                                                     u[1] = f.name}}
        /\ Completed => Cardinality(EntryIndices(Executed)) = 1

C18_Witness ==
    /\ Completed
    /\ run.op = "delete"
    /\ run.props.bastion # None
    /\ run.props.file_substitutions # {}
    /\ \E i \in DOMAIN Executed :
          Executed[i] = Command("sudo bash", <<"delete.sh">>, Target)

C20_NoResultWhenNeverConnected ==
    /\ [](run.pc = "returned" /\ Assembled =>
            /\ run.result = NoResult <=> ~run.uploaded
            /\ IsRecord(run.result) <=> run.uploaded
            /\ run.result = NoResult => run.attempts = RetryBound /\ run.sleeps = RetryBound)
    /\ [][(run.pc = "connect" /\ run.attempts = RetryBound)
             => (run'.pc = "returned" /\ run'.result = NoResult)]_vars

C20_Witness ==
    /\ run.pc = "returned"
    /\ Assembled
    /\ run.result = NoResult
    /\ run.attempts = RetryBound
    /\ ~run.uploaded

\* The call has ended, by a return or by an exception.
Ended == run.pc \in {"returned", "raised"}

\* Every one of the 150 attempts to connect failed.
BudgetExhausted == run.sleeps = RetryBound /\ run.pc # "connect"

\* C21 as stated: a create that has used up the retry budget ends in
\* failure, so that no create result exists for the unit.
C21_Original ==
    (run.op = "create" /\ BudgetExhausted) => run.pc = "raised"

\* C22: whatever the exit status of the entry file, the call that ran its
\* script to the end returns the record with the captured standard output
\* and standard error, the same record for both statuses; the only failure
\* of a call whose script was uploaded is the channel's.
C22_ExitStatusIsNotAFailure ==
    /\ Completed =>
          /\ IsRecord(run.result)
          /\ run.result.stdout = "stdout" /\ run.result.stderr = "stderr"
          /\ run.result.script_name = run.props.script_name
          /\ run.result.host = run.props.host
    /\ (run.pc = "raised" /\ run.uploaded) => run.exception = "timeout"

C22_Witness ==
    /\ run.op = "create"
    /\ Completed
    /\ run.status = "non-zero"
    /\ IsRecord(run.result)
    /\ run.result.stdout = "stdout"

\* C23: a create that ends with an exception has written the diagnostic
\* with its inputs and the trace of that exception, hands the caller the
\* same exception and no result, and takes no further step: the execution
\* is not tried again.
C23_CreateFailureLeavesDiagnostic ==
    /\ []((run.op = "create" /\ run.pc = "raised") =>
            /\ run.exception # None
            /\ run.diagnostic = [inputs |-> run.props, trace |-> run.exception]
            /\ run.result = Absent)
    /\ [][run.pc = "raised" => run' = run]_vars

C23_Witness ==
    /\ run.op = "create"
    /\ run.pc = "raised"
    /\ run.uploaded
    /\ run.exception = "timeout"
    /\ run.diagnostic = [inputs |-> run.props, trace |-> "timeout"]
    /\ run.result = Absent

\* C24 as stated: whenever a call that uploaded its script file has ended,
\* by a return or by an exception, the file is gone from the first hop.
C24_Original ==
    (Ended /\ run.uploaded) => ~run.scriptFile

\* C25 as stated: whenever a call has ended, by a return or by an
\* exception, no key copy is left on the jump-host.
C25_Original ==
    Ended => run.keyFile = NoKeyFile

\* C26 as stated: once the write of the key copy has failed, no session to
\* the host is attempted with the key copy.
C26_Original ==
    run.keyFile.content = "partial" => ~run.probed

\* The call goes through a jump-host and its script was assembled.
Proxied == Assembled /\ Get(run.props, "bastion") # None

\* The position of command c in the script of the call.
At(c) == CHOOSE i \in DOMAIN run.script : run.script[i] = c

\* The positions of the commands that write the key copy, and of those
\* that write the files of the directories.
KeyEchoes ==
    {i \in DOMAIN run.script :
        run.script[i].cmd = "echo >>" /\ run.script[i].path = <<KeyFile>>}

BundleEchoes ==
    {i \in DOMAIN run.script :
        run.script[i].cmd = "echo >>" /\ run.script[i].path # <<KeyFile>>}

C28_Original ==
    run.keyFile.content # "none" => run.keyFile.restricted

\* A directory the call fingerprints holds a file that cannot be read.
BundleUnreadable ==
    \/ run.props.script_name \in run.unreadable
    \/ /\ Get(run.props, "shared_script_name") # None
       /\ Get(run.props, "shared_script_name") \in run.unreadable

\* C29: when a directory of the call holds an unreadable file, create, diff
\* and delete make no connection attempt, assemble and upload nothing and
\* produce no result, neither a record nor a comparison; the call ends with
\* the exception of the read wherever it fingerprints, that is, in every
\* case but the delete that finds no delete.sh and reads nothing.
C29_UnreadableFileIsFatal ==
    (run.pc \notin {"idle", "called"} /\ BundleUnreadable) =>
        /\ run.attempts = 0 /\ run.sleeps = 0 /\ run.connects = {}
        /\ run.script = <<>> /\ ~run.uploaded /\ ~run.scriptFile
        /\ run.ip = 1 /\ run.staged = {}
        /\ run.result = Absent
        /\ \/ run.op = "delete" /\ NoTeardownFile /\ run.pc = "returned"
           \/ run.pc = "raised" /\ run.exception = "OSError"

C29_Witness ==
    /\ run.op = "create"
    /\ BundleUnreadable
    /\ run.pc = "raised"
    /\ run.exception = "OSError"
    /\ run.attempts = 0
    /\ run.result = Absent

\* C30 as stated: the record of a create that was given a shared directory
\* holds its path, and a delete of a record whose fingerprint covers a
\* shared directory delivers the files of that directory.
C30_Original ==
    /\ (run.op = "create" /\ Completed /\ run.props.shared_script_name # None) =>
          /\ "shared_script_name" \in DOMAIN run.result
          /\ run.result.shared_script_name = run.props.shared_script_name
    /\ (run.op = "delete" /\ Assembled /\ Len(run.props.script_hash) = 2) =>
          \E i \in BundleEchoes :
              /\ Len(run.script[i].path) = 3
              /\ run.script[i].path[2] = "shared"

----------------------------------------------------------------------------
(* Further properties of the lifecycle, checked under Spec *)

\* Directory b is directory a with one file under another name.
Renamed(a, b) ==
    /\ Len(a) = Len(b)
    /\ \A i \in DOMAIN a : a[i].content = b[i].content
    /\ Cardinality({i \in DOMAIN a : a[i].name # b[i].name}) = 1

\* Directory b is directory a with the last byte of one file moved to the
\* start of the next file.
ByteMoved(a, b) ==
    /\ Len(a) = Len(b)
    /\ \A i \in DOMAIN a : a[i].name = b[i].name
    /\ \E i \in DOMAIN a :
          /\ i + 1 \in DOMAIN a
          /\ a[i].content # <<>>
          /\ b[i].content = SubSeq(a[i].content, 1, Len(a[i].content) - 1)
          /\ b[i + 1].content = <<a[i].content[Len(a[i].content)]>> \o a[i + 1].content
          /\ \A j \in DOMAIN a : j \notin {i, i + 1} => a[j] = b[j]

\* The directories the declaration names.
DeclaredDirs ==
    {desired.script_name} \cup (IF desired.shared_script_name = None THEN {}
                                ELSE {desired.shared_script_name})

KeyAlone ==
    /\ created # Absent /\ desired # Removed
    /\ desired.private_key # created.inputs.private_key
    /\ desired = [created.inputs EXCEPT !.private_key = desired.private_key]
    /\ ContentsOf(fs, desired) = ContentsOf(created.fs, desired)

\* The declaration differs from the one the latest create ran with in the
\* shared directory alone, and the directory now named has the files the
\* one named before had.
SharedPathAlone ==
    /\ created # Absent /\ desired # Removed
    /\ desired.shared_script_name # None
    /\ created.inputs.shared_script_name # None
    /\ desired.shared_script_name # created.inputs.shared_script_name
    /\ desired = [created.inputs EXCEPT !.shared_script_name = desired.shared_script_name]
    /\ fs[desired.script_name] = created.fs[desired.script_name]
    /\ fs[desired.shared_script_name] = created.fs[created.inputs.shared_script_name]

FiveValues == {"script_name", "file_substitutions", "script_hash", "host", "bastion"}

\* C38: diff names none but the five compared values; after a change of the
\* key reference alone, or of the shared directory alone to a directory
\* with the same files, diff reports no replacement, and the stored record
\* stays as the create wrote it, old key reference included, in every step.
C38_KeyAndSharedPathAreNotCompared ==
    /\ [](DiffDone => Elems(diffResult.replaces) \subseteq FiveValues)
    /\ []((DiffDone /\ IsRecord(record) /\ (KeyAlone \/ SharedPathAlone)) =>
            /\ diffResult = NoReplacement
            /\ record = WrittenBy(created)
            /\ record.private_key = created.inputs.private_key)
    /\ [][(IsRecord(record) /\ (KeyAlone \/ SharedPathAlone)) => record' = record]_vars

C38_Witness ==
    /\ DiffDone
    /\ IsRecord(record)
    /\ SharedPathAlone
    /\ record.private_key = desired.private_key
    /\ diffResult = NoReplacement

----------------------------------------------------------------------------
(* Further properties of one call, checked under SpecRun *)

\* The files of the record's directory that have a line to deliver.
LocalFilesNow ==
    {f \in Elems(fs[run.props.script_name]) : f.content # <<>>}

\* C32: delete decides from the local directory, as it is when delete is
\* called, whether a teardown runs, and the script it assembles writes the
\* files found there then, whatever fingerprint the record holds: the
\* delete.sh that runs for a record whose directory has changed since its
\* create is the new one.
C32_DeleteUsesLocalFilesNow ==
    (run.op = "delete" /\ run.pc \notin {"idle", "called"} /\ ~BundleUnreadable) =>
        /\ NoTeardownFile => run.script = <<>> /\ run.pc = "returned" /\ run.attempts = 0
        /\ ~NoTeardownFile =>
              /\ Assembled
              /\ \A f \in LocalFilesNow :
                    \E i \in BundleEchoes :
                        /\ run.script[i].path = <<RemoteDir, f.name>>
                        /\ run.script[i].text = f.content
              /\ \A i \in BundleEchoes :
                    \E f \in LocalFilesNow :
                        /\ run.script[i].path = <<RemoteDir, f.name>>
                        /\ run.script[i].text = f.content
              /\ \E i \in EntryIndices(run.script) :
                    run.script[i].path = <<"delete.sh">>

C32_Witness ==
    /\ run.op = "delete"
    /\ Completed
    /\ run.props.script_hash[1] # ByteStream(fs[run.props.script_name])
    /\ \E i \in BundleEchoes :
          /\ run.script[i].path = <<RemoteDir, "main.sh">>
          /\ run.script[i].text = <<0>>
    /\ \E i \in DOMAIN Executed : Executed[i].cmd \in EntryCommands

\* C33: only the connection is tried again.  Once an attempt has connected
\* no further attempt is made; the call moves from the upload to the
\* execution or to an exception and from the execution to its return or to
\* an exception, never back, so the script is uploaded once and no command
\* of it runs twice; a call that ended with an exception after connecting
\* made no attempt after the one that connected.
C33_RetriesOnlyTheConnection ==
    /\ [](run.pc = "upload" => ~run.uploaded /\ run.ip = 1 /\ ~run.scriptFile)
    /\ []((run.pc = "raised" /\ Assembled) =>
            run.attempts >= 1 /\ run.sleeps = run.attempts - 1)
    /\ [][/\ run.pc = "upload" => run'.pc \in {"upload", "exec", "raised"}
          /\ run.pc = "exec" => run'.pc \in {"exec", "returned", "raised"}
          /\ run.pc \in {"upload", "exec", "returned", "raised"} =>
                /\ run'.attempts = run.attempts
                /\ run'.sleeps = run.sleeps
                /\ run'.connects = run.connects
                /\ run'.ip >= run.ip
                /\ run.uploaded => run'.uploaded]_vars

C33_Witness ==
    /\ run.pc = "raised"
    /\ Assembled
    /\ run.exception = "SSHException"
    /\ ~run.uploaded
    /\ run.attempts = 2
    /\ run.sleeps = 1

EntriesAt(P) ==
    {<<t[2], t[3]>> : t \in {u \in Get(run.props, "file_substitutions") : u[1] = P}}

\* C39: every file is written under the entries the map holds for the
\* file's path relative to its own directory: the file P of the primary
\* directory and the file P of the shared directory, delivered as shared/P,
\* both under the entries keyed P; no file of the shared directory is
\* written under the entries keyed shared/P.
C39_LookupIsRelativeToOwnRoot ==
    Assembled =>
        \A i \in BundleEchoes :
            LET p == run.script[i].path
            IN  /\ run.script[i].subs = EntriesAt(p[Len(p)])
                /\ (Len(p) = 3 /\ p[2] = "shared" /\ EntriesAt("main.sh") = {})
                      => run.script[i].subs = {}

C39_Witness ==
    /\ run.op = "create"
    /\ Completed
    /\ EntriesAt("main.sh") = {<<"X", "v">>}
    /\ \E i, j \in BundleEchoes :
          /\ run.script[i].path = <<RemoteDir, "main.sh">>
          /\ run.script[j].path = <<RemoteDir, "shared", "main.sh">>
          /\ run.script[i].subs = {<<"X", "v">>}
          /\ run.script[j].subs = {<<"X", "v">>}

----------------------------------------------------------------------------
(* Properties of the commands written for a folder, checked under         *)
(* SpecFolder                                                              *)

\* A mkdir -p of directory q stands before position i.
MadeBefore(q, i) ==
    \E j \in 1..(i - 1) : folder.commands[j] = Command("mkdir -p", q, FirstHop)

\* The directories of the tree with no file and no sub-directory.
EmptyLeaves ==
    {p \in folder.tree :
        /\ FilesOf(p, folder.empty) = <<>>
        /\ \A d \in DirNames : Append(p, d) \notin folder.tree}

\* C34: the first command written is the mkdir -p of the staging root;
\* before every command that appends to a file stands a mkdir -p of each
\* directory on the way from the staging root to the file; every directory
\* of the tree, empty ones included, gets its mkdir -p.
C34_DirectoriesBeforeFiles ==
    folder.pc = "written" =>
        /\ folder.commands[1] = Command("mkdir -p", folder.echo_path, FirstHop)
        /\ \A i \in DOMAIN folder.commands :
              folder.commands[i].cmd = "echo >>" =>
                  \A n \in Len(folder.echo_path)..(Len(folder.commands[i].path) - 1) :
                      MadeBefore(SubSeq(folder.commands[i].path, 1, n), i)
        /\ \A p \in folder.tree :
              MadeBefore(folder.echo_path \o p, Len(folder.commands) + 1)

C34_Witness ==
    /\ folder.pc = "written"
    /\ EmptyLeaves # {}
    /\ \E i \in DOMAIN folder.commands :
          /\ folder.commands[i].cmd = "echo >>"
          /\ folder.commands[i].path = folder.echo_path \o <<"etc", "lib", "main.sh">>
    /\ \E i \in DOMAIN folder.commands :
          /\ folder.commands[i].cmd = "echo >>"
          /\ folder.commands[i].path = folder.echo_path \o <<"main.sh">>

----------------------------------------------------------------------------
(* Properties of exec_simple, checked under SpecExec *)

\* The bytes of stream st the reader holds: those collected, and those the
\* read in progress has received if it reads st.
Held(st) ==
    chan.got[st] \o (IF chan.pc \in Reading /\ StreamOf(chan.pc) = st
                     THEN chan.cur ELSE <<>>)

C36_Original ==
    ~ \E st \in Streams :
          /\ chan.pc \in Reading
          /\ StreamOf(chan.pc) # st
          /\ chan.buf[StreamOf(chan.pc)] = <<>>
          /\ Len(chan.cur) < ReadSize
          /\ ~chan.exited
          /\ chan.next <= Len(chan.prog)
          /\ chan.prog[chan.next] = st
          /\ Len(chan.buf[st]) = BufSize

----------------------------------------------------------------------------
(* Properties of two executions at the same time, checked under SpecPair *)

\* The names of the two executions are distinct.
DistinctNames ==
    /\ {pair.ex["A"].remote_dir, pair.ex["A"].key_file}
           \cap {pair.ex["B"].remote_dir, pair.ex["B"].key_file} = {}
    /\ \A e \in Executions : pair.ex[e].remote_dir # pair.ex[e].key_file
    /\ pair.ex["A"].iden # pair.ex["B"].iden

\* What is found under the names of execution e.
PathsOf(p, e) ==
    <<p.home[p.ex[e].iden], p.src[p.ex[e].remote_dir],
      p.src[p.ex[e].key_file], p.target[p.ex[e].remote_dir]>>

After(e, pcs) == pair.ex[e].pc \notin pcs

\* C31: when the names of the two executions are distinct then, under
\* every interleaving, a path of an execution holds nothing that the other
\* wrote; the script, the key copy and the entry file an execution uses are
\* the ones it wrote itself; a step of one execution leaves what lies under
\* the names of the other as it was; when both executions have ended
\* nothing is left on either machine.
C31_ConcurrentExecutionsAreIsolated ==
    /\ [](pair # Idle /\ DistinctNames =>
            /\ \A e \in Executions :
                  /\ \A i \in 1..4 : PathsOf(pair, e)[i] \in {<<>>, <<e>>}
                  /\ After(e, {"upload", "stage"}) => pair.ex[e].script_ran = <<e>>
                  /\ After(e, {"upload", "stage", "key", "probe"})
                        => pair.ex[e].key_used = <<e>>
                  /\ After(e, {"upload", "stage", "key", "probe", "put", "entry"})
                        => pair.ex[e].entry_ran = <<e>>
            /\ (\A e \in Executions : pair.ex[e].pc = "done") =>
                  /\ \A n \in Tokens : pair.src[n] = <<>> /\ pair.target[n] = <<>>
                  /\ \A n \in ScriptTokens : pair.home[n] = <<>>)
    /\ [][(pair # Idle /\ DistinctNames) =>
             \A e \in Executions :
                 pair'.ex[e] = pair.ex[e] => PathsOf(pair', e) = PathsOf(pair, e)]_vars

C31_Witness ==
    /\ pair # Idle
    /\ DistinctNames
    /\ pair.ex["A"].pc = "rm target"
    /\ pair.ex["B"].pc = "entry"
    /\ pair.ex["A"].entry_ran = <<"A">>
    /\ pair.target[pair.ex["A"].remote_dir] = <<"A">>
    /\ pair.target[pair.ex["B"].remote_dir] = <<"B">>

====
